---- MODULE Spec2Model ----
(***************************************************************************)
(* The render process protocol of pySSV: SSVRenderProcessClient (the       *)
(* proxy in the host process, with its receiver thread and its table of    *)
(* pending query futures) and SSVRenderProcessServer (the worker running   *)
(* the single-threaded command-and-render loop), joined by two FIFO        *)
(* queues.                                                                 *)
(*                                                                         *)
(* Time is counted in ticks; there are TicksPerSecond ticks in a second.   *)
(* The worker's two clocks are kept as the time elapsed since the value    *)
(* they are compared with: sinceHeartbeat is                               *)
(* time.monotonic() - _last_heartbeat_time, sinceFrame is                  *)
(* time.perf_counter() - last_frame_time.  The renderer is the abstract    *)
(* SSVRender: render() answers a boolean, every other call returns.        *)
(***************************************************************************)
EXTENDS Integers, Sequences, FiniteSets, TLC

VARIABLES
    command_queue_tx,   \* client -> worker queue (the server's _command_queue_rx)
    command_queue_rx,   \* worker -> client queue (the server's _command_queue_tx)
    server_pc,          \* where the worker is: "unstarted", "loop", "drain", "sleep", "exited", "crashed"
    running,            \* SSVRenderProcessServer.running
    target_framerate,   \* SSVRenderProcessServer.target_framerate
    watchdog_time,      \* SSVRenderProcessServer.watchdog_time, None or ticks
    sinceHeartbeat,     \* time.monotonic() - _last_heartbeat_time, ticks
    sinceFrame,         \* time.perf_counter() - last_frame_time, ticks
    drain_left,         \* iterations left of "for i in range(size)"
    timeout,            \* the loop's local timeout, in half ticks
    client_pc,          \* SSVRenderProcessClient.__init__: "new", "started", "ready"; "dead" once the host died
    is_alive_flag,      \* SSVRenderProcessClient._is_alive: "unset", "True", "False"
    rx_thread,          \* the receiver thread: "run" or "raised"
    query_futures,      \* SSVRenderProcessClient._query_futures: query_id -> Future object
    query_future_id_counter,
    query_futures_lock, \* holder of _query_futures_lock, or "free"
    future,             \* the Future objects ever created
    caller,             \* the threads calling the async query methods
    program,            \* the commands the host program uses (fixed at Init)
    hist,               \* history: what was sent, executed, rendered, answered
    call,               \* the shader preprocessor call in progress: its method and arguments
    pre_pc,             \* where that call is: "idle", "called", ..., "returned", "raised"
    ret,                \* what the call returned or raised
    macros,             \* the macro tables of the parsers SSVShaderPreprocessor keeps
    done                \* history: the finished calls, each with the macro tables it found

vars == <<command_queue_tx, command_queue_rx, server_pc, running, target_framerate,
          watchdog_time, sinceHeartbeat, sinceFrame, drain_left, timeout,
          client_pc, is_alive_flag, rx_thread, query_futures,
          query_future_id_counter, query_futures_lock, future, caller, program, hist,
          call, pre_pc, ret, macros, done>>

server_vars == <<server_pc, running, target_framerate, watchdog_time, drain_left, timeout>>
clock_vars == <<sinceHeartbeat, sinceFrame>>
query_vars == <<query_futures, query_future_id_counter, query_futures_lock, future, caller>>
pre_vars == <<call, pre_pc, ret, macros, done>>
render_process_vars ==
    <<command_queue_tx, command_queue_rx, server_pc, running, target_framerate,
      watchdog_time, sinceHeartbeat, sinceFrame, drain_left, timeout,
      client_pc, is_alive_flag, rx_thread, query_futures,
      query_future_id_counter, query_futures_lock, future, caller, program, hist>>

----------------------------------------------------------------------------
(* Bounds of the model. *)

\* Commands the host enqueues through the non-query methods.
MaxCmds == 3
\* Query futures the callers create.
MaxQueries == 2
\* Frames the worker renders.
MaxFrames == 2
\* Tokens in a list handed to correct_tokens.
MaxTokens == 3
\* Characters and escape sequences in a string literal.
MaxPieces == 2
\* Lines in a shader source.
MaxLines == 3
\* Pragmas at the head of a template source.
MaxPragmas == 3
\* Calls of one parser.
MaxCalls == 2
\* Calls of add_dynamic_uniform and remove_dynamic_uniform before a preprocess().
MaxUniformCalls == 3

----------------------------------------------------------------------------
(* Program constants. *)

\* None, as the argument of SWdg and the value of watchdog_time.
None == -1
\* Ticks in a second.
TicksPerSecond == 2

\* logging.INFO, WARN, ERROR and the worker's log_severity (get_severity() of
\* the client's logger, INFO unless the host changed it).
INFO == 20
WARN == 30
ERROR == 40
log_severity == 20

Min(a, b) == IF a < b THEN a ELSE b
Max(a, b) == IF a > b THEN a ELSE b

----------------------------------------------------------------------------
(* Messages. *)

\* A command tuple (tag, *args) on the client -> worker queue.  arg is the
\* first argument (the framerate of Rndr, the timeout of SWdg, the query_id of
\* a query); id is the position of the command in the order of the put()
\* calls, which the model keeps to state the ordering properties.
Command(tag, arg, id) == [tag |-> tag, arg |-> arg, id |-> id]

\* A message tuple on the worker -> client queue: ("NFrm", data),
\* ("LogM", severity, text), ("Stop",), ("ARes", query_id, *result).
Message(tag, arg, res) == [tag |-> tag, arg |-> arg, res |-> res]

\* The tags __parse_render_command has a branch for.
ServerTags ==
    {"Stop", "HrtB", "SWdg", "UFBO", "DFBO", "Rndr", "UpdU", "UpdV", "UpdT", "UpdS",
     "DelT", "RegS", "RdCp", "LogC", "LogT", "GtCt", "GtFt", "GtEx", "DbRT"}

\* The tags whose branch answers with __send_async_result.
ServerQueryTags == {"GtCt", "GtFt", "GtEx"}

\* The result *args that each query branch passes to __send_async_result.
QueryResult(tag) ==
    CASE tag = "GtCt" -> <<"ctx">>
      [] tag = "GtFt" -> <<"avg_delta_time", "max_delta_time",
                           "avg_delta_time_encode", "max_delta_time_encode">>
      [] tag = "GtEx" -> <<"ext">>
      [] OTHER -> <<>>

\* A dispatcher that stops for "Stop" alone.
ReturnsUnlessStop(tag) == tag # "Stop"

\* What a command's branch leaves of the loop: TRUE to go on, FALSE to exit.
\* "Stop" and every tag without a branch return False.
ParseReturns(tag) == tag \in ServerTags /\ tag # "Stop"

\* ssv_logging.log as the worker's logger is set up: the message reaches the
\* SSVRenderProcessLogger, which puts ("LogM", severity, text), when its
\* severity is at least log_severity.
Log(severity) ==
    IF severity >= log_severity THEN <<Message("LogM", severity, <<>>)>> ELSE <<>>

\* __shutdown: log the reason, then put ("Stop",).
Shutdown == Log(WARN) \o <<Message("Stop", 0, <<>>)>>

\* 1 / target_framerate, in ticks (framerate > 0).
FramePeriod(framerate) == TicksPerSecond \div framerate

\* The watchdog timeouts the host uses.
WatchdogTimes == {1, 2}

\* The clocks are kept up to the largest value they are compared with.
HeartbeatCap == 1 + CHOOSE m \in WatchdogTimes : \A t \in WatchdogTimes : t <= m
FrameCap == TicksPerSecond

----------------------------------------------------------------------------
(* History. *)

\* hist.since_sent is the time since the worker started or the client last
\* enqueued a heartbeat (HrtB or Rndr); hist.on_time says that this time has
\* been below the watchdog timeout the client was constructed with all along.

\* hist with the messages msgs put on the worker -> client queue: how many
\* Stop messages were put so far, and whether anything was put after one.
Put(h, msgs) ==
    LET isStop(i) == msgs[i].tag = "Stop"
        nStops == Cardinality({i \in 1..Len(msgs) : isStop(i)})
        follows == \E i \in 1..Len(msgs) : \E j \in 1..Len(msgs) : i < j /\ isStop(i)
    IN  [h EXCEPT !.stops = Min(@ + nStops, 2),
                  !.after_stop = @ \/ (h.stops > 0 /\ msgs # <<>>) \/ follows]

----------------------------------------------------------------------------
(* The worker: SSVRenderProcessServer. *)

\* SSVRenderProcessServer.__init__ up to the first iteration of
\* __render_process_loop, in the process the client started.
ServerInit ==
    /\ server_pc = "spawned"
    /\ server_pc' = "loop"
    /\ sinceHeartbeat' = 0
    /\ sinceFrame' = 0
    /\ UNCHANGED <<command_queue_tx, command_queue_rx, running, target_framerate,
                   watchdog_time, drain_left, timeout, client_pc, is_alive_flag,
                   rx_thread, program, hist>>
    /\ UNCHANGED query_vars
    /\ UNCHANGED pre_vars

\* A watchdog that is only looked at while rendering.
WatchdogExpiredWhileRunning ==
    running /\ watchdog_time # None /\ sinceHeartbeat > watchdog_time

\* The watchdog check of one loop iteration.
WatchdogExpired ==
    watchdog_time # None /\ sinceHeartbeat > watchdog_time

\* A loop that renders whether it is running or not.
FrameDueWhenIdle ==
    target_framerate <= 0 \/ sinceFrame >= FramePeriod(target_framerate)

\* Whether the loop iteration renders a frame.
FrameDue ==
    running /\ (target_framerate <= 0 \/ sinceFrame >= FramePeriod(target_framerate))

\* The sleep of an iteration that found the command queue empty, in half ticks.
SleepTimeout ==
    IF running /\ target_framerate > 0
    THEN Max(FramePeriod(target_framerate) - sinceFrame, 0)
    ELSE IF watchdog_time = None
         THEN 5 * TicksPerSecond * 2
         ELSE Min(watchdog_time, 1 * TicksPerSecond * 2)

\* One iteration of "while True" up to the command queue: the watchdog check,
\* the frame (__render_frame puts NFrm whatever render() answered), then
\* qsize(), which starts a drain of that many commands or the sleep.
ServerLoop ==
    /\ server_pc = "loop"
    /\ UNCHANGED <<command_queue_tx, target_framerate, watchdog_time, sinceHeartbeat,
                   client_pc, is_alive_flag, rx_thread, program>>
    /\ IF WatchdogExpired
       THEN /\ server_pc' = "exited"
            /\ command_queue_rx' = command_queue_rx \o Shutdown
            /\ hist' = Put(hist, Shutdown)
            /\ UNCHANGED <<running, sinceFrame, drain_left, timeout>>
       ELSE \E rendered \in BOOLEAN :
            LET size == Len(command_queue_tx)
                frame == IF FrameDue THEN <<Message("NFrm", 0, <<>>)>> ELSE <<>>
            IN  /\ FrameDue => hist.frames < MaxFrames
                /\ ~FrameDue => rendered
                /\ running' = (running /\ rendered)
                /\ sinceFrame' = IF FrameDue THEN 0 ELSE sinceFrame
                /\ command_queue_rx' = command_queue_rx \o frame
                /\ hist' = IF FrameDue
                           THEN [Put(hist, frame) EXCEPT
                                   !.frames = @ + 1,
                                   !.frames_since_rndr = Min(@ + 1, 2),
                                   !.frame_rndr = hist.last_rndr,
                                   !.frame_uniforms = hist.uniforms]
                           ELSE hist
                /\ IF size > 0
                   THEN /\ server_pc' = "drain"
                        /\ drain_left' = size
                        /\ UNCHANGED timeout
                   ELSE /\ server_pc' = "sleep"
                        /\ timeout' = SleepTimeout'
                        /\ UNCHANGED drain_left
    /\ UNCHANGED query_vars
    /\ UNCHANGED pre_vars

\* time.sleep(timeout) returns.
ServerSleep ==
    /\ server_pc = "sleep"
    /\ server_pc' = "loop"
    /\ UNCHANGED <<command_queue_tx, command_queue_rx, running, target_framerate,
                   watchdog_time, drain_left, timeout, client_pc, is_alive_flag,
                   rx_thread, program, hist>>
    /\ UNCHANGED clock_vars
    /\ UNCHANGED query_vars
    /\ UNCHANGED pre_vars

\* A renderer that drops the update.
UniformDropped(uniforms, id) == uniforms

\* self._renderer.update_uniform(*command_args): the renderer's uniforms with
\* the update that command id carries applied.
UpdateUniform(uniforms, id) == uniforms \cup {id}

\* A loop that sleeps once the commands it counted are done.
SleepAfterDrain(left) == IF left > 1 THEN "drain" ELSE "sleep"

\* The loop after one call of __parse_render_command in the drain.
AfterParse(left) == IF left > 1 THEN "drain" ELSE "loop"

\* A queue that hands out the newest command.
NewestCommand == command_queue_tx[Len(command_queue_tx)]

\* The command that get() takes from the queue.
NextCommand == Head(command_queue_tx)

\* __parse_render_command(0) where get() returns a command: its branch, and
\* __shutdown("requested by client") when the branch returns False.
ServerParse ==
    /\ server_pc = "drain"
    /\ command_queue_tx # <<>>
    /\ LET cmd == NextCommand
           tag == cmd.tag
           known == tag \in ServerTags
           goOn == ParseReturns(tag)
           answer == IF tag \in ServerQueryTags
                     THEN <<Message("ARes", cmd.arg, QueryResult(tag))>> ELSE <<>>
           msgs == (IF known THEN answer ELSE Log(ERROR))
                   \o (IF goOn THEN <<>> ELSE Shutdown)
       IN  /\ command_queue_tx' = Tail(command_queue_tx)
           /\ command_queue_rx' = command_queue_rx \o msgs
           /\ server_pc' = IF goOn THEN AfterParse(drain_left) ELSE "exited"
           /\ drain_left' = drain_left - 1
           /\ sinceHeartbeat' = IF tag \in {"HrtB", "Rndr"} THEN 0 ELSE sinceHeartbeat
           /\ watchdog_time' = IF tag = "SWdg" THEN cmd.arg ELSE watchdog_time
           /\ target_framerate' = IF tag = "Rndr" THEN cmd.arg ELSE target_framerate
           /\ running' = IF tag = "Rndr" THEN cmd.arg # 0 ELSE running
           /\ hist' = [Put(hist, msgs) EXCEPT
                          !.executed = Append(@, cmd.id),
                          !.uniforms = IF tag = "UpdU" THEN UpdateUniform(@, cmd.id) ELSE @,
                          !.last_rndr = IF tag = "Rndr" THEN cmd.id ELSE @,
                          !.frames_since_rndr = IF tag = "Rndr" THEN 0 ELSE @,
                          !.ares = IF answer # <<>> THEN Append(@, cmd.arg) ELSE @,
                          !.error_logged = @ \/ (~known /\ Log(ERROR) # <<>>)]
    /\ UNCHANGED <<sinceFrame, timeout, client_pc, is_alive_flag, rx_thread, program>>
    /\ UNCHANGED query_vars
    /\ UNCHANGED pre_vars

\* __parse_render_command(0) where get(block=False) raises Empty (qsize()
\* counts a command from put() on, get() sees it once the queue's feeder has
\* written it to the pipe): returns True.
ServerParseEmpty ==
    /\ server_pc = "drain"
    /\ server_pc' = AfterParse(drain_left)
    /\ drain_left' = drain_left - 1
    /\ UNCHANGED <<command_queue_tx, command_queue_rx, running, target_framerate,
                   watchdog_time, timeout, client_pc, is_alive_flag, rx_thread,
                   program, hist>>
    /\ UNCHANGED clock_vars
    /\ UNCHANGED query_vars
    /\ UNCHANGED pre_vars

\* What __parse_render_command does with an exception get() raises once the
\* host is gone: "except KeyboardInterrupt or ValueError" names the class
\* KeyboardInterrupt alone, so that one is caught (log, return False) and a
\* ValueError leaves the process through the uncaught exception.
Caught(exception) == exception = "KeyboardInterrupt"

\* __parse_render_command(0) where get() raises because the peer died.
ServerParseReadFailure ==
    /\ server_pc = "drain"
    /\ client_pc = "dead"
    /\ \E exception \in {"KeyboardInterrupt", "ValueError"} :
          LET msgs == IF Caught(exception) THEN Log(INFO) \o Shutdown ELSE <<>>
          IN  /\ server_pc' = IF Caught(exception) THEN "exited" ELSE "crashed"
              /\ command_queue_rx' = command_queue_rx \o msgs
              /\ hist' = [Put(hist, msgs) EXCEPT !.read_failed = TRUE]
    /\ UNCHANGED <<command_queue_tx, running, target_framerate, watchdog_time,
                   drain_left, timeout, client_pc, is_alive_flag, rx_thread, program>>
    /\ UNCHANGED clock_vars
    /\ UNCHANGED query_vars
    /\ UNCHANGED pre_vars

\* Time passes.  Both clocks are read at the top of a loop iteration only,
\* so that is where the model lets the time since the last iteration pass; a
\* clock that nothing is compared with in this state (no watchdog, not
\* running) is left where it is until it is.
Tick ==
    /\ server_pc = "loop"
    /\ sinceHeartbeat' = IF watchdog_time = None THEN sinceHeartbeat
                         ELSE Min(sinceHeartbeat + 1, HeartbeatCap)
    /\ sinceFrame' = IF running THEN Min(sinceFrame + 1, FrameCap) ELSE sinceFrame
    /\ hist' = LET on_time == hist.on_time /\ hist.since_sent + 1 < program.timeout
               IN  [hist EXCEPT !.on_time = on_time,
                                !.since_sent = IF on_time THEN @ + 1 ELSE 0]
    /\ UNCHANGED <<command_queue_tx, command_queue_rx, client_pc, is_alive_flag,
                   rx_thread, program>>
    /\ UNCHANGED server_vars
    /\ UNCHANGED query_vars
    /\ UNCHANGED pre_vars

\* The worker process ends once the loop is left, by return or by exception.
ProcessExit ==
    /\ server_pc \in {"exited", "crashed"}
    /\ server_pc' = "terminated"
    /\ UNCHANGED <<command_queue_tx, command_queue_rx, running, target_framerate,
                   watchdog_time, drain_left, timeout, client_pc, is_alive_flag,
                   rx_thread, program, hist>>
    /\ UNCHANGED clock_vars
    /\ UNCHANGED query_vars
    /\ UNCHANGED pre_vars

----------------------------------------------------------------------------
(* The client: SSVRenderProcessClient. *)

\* __init__ up to self._render_process.start(): the queues, the table and the
\* receiver thread exist from Init on; this starts the worker process.
ClientStartProcess ==
    /\ client_pc = "new"
    /\ client_pc' = "started"
    /\ server_pc' = "spawned"
    /\ UNCHANGED <<command_queue_tx, command_queue_rx, running, target_framerate,
                   watchdog_time, drain_left, timeout, is_alive_flag, rx_thread,
                   program, hist>>
    /\ UNCHANGED clock_vars
    /\ UNCHANGED query_vars
    /\ UNCHANGED pre_vars

\* The last statement of __init__: self._is_alive = True.
ClientSetAlive ==
    /\ client_pc = "started"
    /\ client_pc' = "ready"
    /\ is_alive_flag' = "True"
    /\ UNCHANGED <<command_queue_tx, command_queue_rx, rx_thread, program, hist>>
    /\ UNCHANGED server_vars
    /\ UNCHANGED clock_vars
    /\ UNCHANGED query_vars
    /\ UNCHANGED pre_vars

\* The is_alive property: _is_alive and _render_process.is_alive().
is_alive ==
    is_alive_flag = "True" /\ server_pc \in {"spawned", "loop", "drain", "sleep", "exited", "crashed"}

\* The tags that the public methods of the client put on the command queue
\* (dbg_render_command, which sends whatever tag it is given, aside).
ClientTags ==
    {"UFBO", "DFBO", "Rndr", "Stop", "HrtB", "SWdg", "UpdU", "UpdV", "DelV", "UpdT",
     "UpdS", "DelT", "RegS", "RdCp", "StTm", "GtCt", "GtFt", "GtEx", "SvIm", "LogC",
     "LogT", "DbRT"}

\* A public method that only enqueues: render, stop, send_heartbeat,
\* set_timeout, update_uniform, delete_vertex_buffer, set_start_time,
\* dbg_render_command, ...: one put() of (tag, *args).
ClientSend ==
    /\ client_pc = "ready"
    /\ Len(hist.sent) < MaxCmds
    /\ \E c \in program.cmds :
          /\ command_queue_tx' = Append(command_queue_tx, Command(c[1], c[2], Len(hist.sent) + 1))
          /\ hist' = [hist EXCEPT !.sent = Append(@, [tag |-> c[1], arg |-> c[2], query |-> FALSE]),
                                  !.since_sent = IF c[1] \in {"HrtB", "Rndr"} THEN 0 ELSE @]
    /\ UNCHANGED <<command_queue_rx, client_pc, is_alive_flag, rx_thread, program>>
    /\ UNCHANGED server_vars
    /\ UNCHANGED clock_vars
    /\ UNCHANGED query_vars
    /\ UNCHANGED pre_vars

\* The host process dies: its threads end with it, the worker is orphaned.
ClientDies ==
    /\ client_pc = "ready"
    /\ program.dies
    /\ client_pc' = "dead"
    /\ UNCHANGED <<command_queue_tx, command_queue_rx, is_alive_flag, rx_thread,
                   program, hist>>
    /\ UNCHANGED server_vars
    /\ UNCHANGED clock_vars
    /\ UNCHANGED query_vars
    /\ UNCHANGED pre_vars

----------------------------------------------------------------------------
(* Futures and async queries. *)

\* Future(): the Event is there and clear, _result is not set yet.
NewFuture ==
    [available |-> FALSE, has_event |-> TRUE, result |-> [tuple |-> FALSE, vals |-> <<>>]]

\* Future.set_result(val): self._result = val, then self._is_available.set(),
\* which raises AttributeError on an object whose _is_available was deleted.
SetResultRaises(f) == ~f.has_event
SetResult(f, val) == [f EXCEPT !.result = val, !.available = f.has_event]

\* Future.wait_result where the Event is set: del self._is_available and
\* return self._result.
WaitResultAvailable(f) == [f EXCEPT !.has_event = FALSE]

\* Future.wait_result where the wait timed out: return None, the object as it was.
WaitResultTimedOut(f) == f

\* A table without its lock.
NoLock == TRUE

\* "with self._query_futures_lock": the lock can be taken.
LockFree == query_futures_lock = "free"

\* The tags of the query methods: get_context_info, get_frame_times,
\* get_supported_extensions block in wait_result, save_image returns the Future.
ClientBlockingQueryTags == {"GtCt", "GtFt", "GtEx"}
ClientQueryTags == ClientBlockingQueryTags \cup {"SvIm"}

Callers == {"t1", "t2"}

\* __create_async_query, first half: take the lock, create the Future and
\* read the counter into query_id.
CallerLock(c) ==
    /\ client_pc = "ready"
    /\ caller[c].pc = "idle"
    /\ Len(future) < MaxQueries
    /\ Len(hist.sent) + Cardinality({d \in Callers : caller[d].pc \in {"locked", "put"}}) < MaxCmds
    /\ LockFree
    /\ \E tag \in program.queries :
          /\ future' = Append(future, NewFuture)
          /\ caller' = [caller EXCEPT ![c] =
                           [pc |-> "locked", tag |-> tag, query_id |-> query_future_id_counter,
                            fut |-> Len(future) + 1, ret |-> ""]]
    /\ query_futures_lock' = c
    /\ hist' = [hist EXCEPT !.issued = Append(@, query_future_id_counter)]
    /\ UNCHANGED <<command_queue_tx, command_queue_rx, client_pc, is_alive_flag,
                   rx_thread, program, query_futures, query_future_id_counter>>
    /\ UNCHANGED server_vars
    /\ UNCHANGED clock_vars
    /\ UNCHANGED pre_vars

\* __create_async_query, second half: counter += 1, store the Future under
\* query_id, release the lock.
CallerRegister(c) ==
    /\ caller[c].pc = "locked"
    /\ query_future_id_counter' = query_future_id_counter + 1
    /\ query_futures' = (caller[c].query_id :> caller[c].fut) @@ query_futures
    /\ query_futures_lock' = IF query_futures_lock = c THEN "free" ELSE query_futures_lock
    /\ caller' = [caller EXCEPT ![c].pc = "put"]
    /\ UNCHANGED <<command_queue_tx, command_queue_rx, client_pc, is_alive_flag,
                   rx_thread, program, future, hist>>
    /\ UNCHANGED server_vars
    /\ UNCHANGED clock_vars
    /\ UNCHANGED pre_vars

\* __create_async_query: self._command_queue_tx.put((command, query_id, *args)).
\* save_image returns the Future; the other three go on to wait_result(timeout).
CallerPut(c) ==
    /\ caller[c].pc = "put"
    /\ command_queue_tx' = Append(command_queue_tx,
                                  Command(caller[c].tag, caller[c].query_id, Len(hist.sent) + 1))
    /\ hist' = [hist EXCEPT !.sent = Append(@, [tag |-> caller[c].tag,
                                                arg |-> caller[c].query_id, query |-> TRUE])]
    /\ caller' = IF caller[c].tag \in ClientBlockingQueryTags
                 THEN [caller EXCEPT ![c].pc = "wait"]
                 ELSE [caller EXCEPT ![c].pc = "idle", ![c].ret = "Future"]
    /\ UNCHANGED <<command_queue_rx, client_pc, is_alive_flag, rx_thread, program,
                   query_futures, query_future_id_counter, query_futures_lock, future>>
    /\ UNCHANGED server_vars
    /\ UNCHANGED clock_vars
    /\ UNCHANGED pre_vars

\* wait_result(timeout) returns: the result when the Event is set, None when
\* the caller passed a finite timeout and it elapsed first.
CallerWait(c) ==
    /\ caller[c].pc = "wait"
    /\ LET f == future[caller[c].fut]
       IN  \/ /\ f.available
              /\ future' = [future EXCEPT ![caller[c].fut] = WaitResultAvailable(f)]
              /\ caller' = [caller EXCEPT ![c].pc = "idle", ![c].ret = "result"]
           \/ /\ ~f.available
              /\ future' = [future EXCEPT ![caller[c].fut] = WaitResultTimedOut(f)]
              /\ caller' = [caller EXCEPT ![c].pc = "idle", ![c].ret = "None"]
    /\ UNCHANGED <<command_queue_tx, command_queue_rx, client_pc, is_alive_flag,
                   rx_thread, program, query_futures, query_future_id_counter,
                   query_futures_lock, hist>>
    /\ UNCHANGED server_vars
    /\ UNCHANGED clock_vars
    /\ UNCHANGED pre_vars

\* A receiver that looks every query_id up.
AlwaysPending(query_id) == TRUE

\* "if command_args[0] in self._query_futures".
Pending(query_id) == query_id \in DOMAIN query_futures

\* res = command_args[1:] if len(command_args) > 2 else command_args[1],
\* where command_args is the query_id followed by the result.
AsyncResult(result) == [tuple |-> 1 + Len(result) > 2, vals |-> result]

\* The table without the entry of query_id: del self._query_futures[query_id].
Without(table, query_id) == [q \in DOMAIN table \ {query_id} |-> table[q]]

\* One iteration of __rx_thread_process: get() a message and handle it.  An
\* ARes is handled under the lock; a lookup of a missing key and a set_result
\* on a Future without its Event raise, which ends the thread.
RxThreadProcess ==
    /\ rx_thread = "run"
    /\ client_pc # "dead"
    /\ command_queue_rx # <<>>
    /\ LET msg == Head(command_queue_rx)
           q == msg.arg
       IN  /\ command_queue_rx' = Tail(command_queue_rx)
           /\ IF msg.tag = "Stop"
              THEN /\ is_alive_flag' = "False"
                   /\ hist' = [hist EXCEPT !.stop_seen = TRUE]
                   /\ UNCHANGED <<rx_thread, query_futures, future>>
              ELSE IF msg.tag = "ARes"
              THEN /\ LockFree
                   /\ UNCHANGED is_alive_flag
                   /\ hist' = [hist EXCEPT !.delivered = @ \cup {q},
                                           !.late = @
                                              \cup (IF q \in DOMAIN query_futures
                                                    THEN {} ELSE {"unknown"})
                                              \cup (IF \E c \in Callers :
                                                          /\ caller[c].query_id = q
                                                          /\ caller[c].ret = "None"
                                                    THEN {"timed_out"} ELSE {})]
                   /\ IF Pending(q)
                      THEN IF q \notin DOMAIN query_futures
                           THEN /\ rx_thread' = "raised"
                                /\ UNCHANGED <<query_futures, future>>
                           ELSE LET o == query_futures[q]
                                IN  IF SetResultRaises(future[o])
                                    THEN /\ rx_thread' = "raised"
                                         /\ future' = [future EXCEPT ![o].result = AsyncResult(msg.res)]
                                         /\ UNCHANGED query_futures
                                    ELSE /\ future' = [future EXCEPT ![o] = SetResult(@, AsyncResult(msg.res))]
                                         /\ query_futures' = Without(query_futures, q)
                                         /\ UNCHANGED rx_thread
                      ELSE UNCHANGED <<rx_thread, query_futures, future>>
              ELSE UNCHANGED <<is_alive_flag, rx_thread, query_futures, future, hist>>
    /\ UNCHANGED <<command_queue_tx, client_pc, program, query_future_id_counter,
                   query_futures_lock, caller>>
    /\ UNCHANGED server_vars
    /\ UNCHANGED clock_vars
    /\ UNCHANGED pre_vars

----------------------------------------------------------------------------
(* The system. *)

\* A query_id that no Future is ever registered under, as dbg_render_command
\* can send it.
UnknownQueryId == MaxQueries + 7

\* The host programs: the watchdog timeout each passes to the client's
\* constructor, the commands it enqueues through the non-query methods (tag and
\* first argument), the query methods its caller threads use, and whether the
\* host process dies without stopping the worker.
Programs ==
    { [timeout |-> 1,
       cmds |-> {<<"UpdU", 0>>, <<"Rndr", -1>>, <<"Rndr", 0>>},
       queries |-> {}, dies |-> FALSE],
      [timeout |-> 1,
       cmds |-> {<<"Rndr", 1>>},
       queries |-> {}, dies |-> FALSE],
      [timeout |-> 1,
       cmds |-> {<<"Stop", 0>>, <<"HrtB", 0>>, <<"SWdg", None>>, <<"SWdg", 1>>},
       queries |-> {}, dies |-> TRUE],
      [timeout |-> 2,
       cmds |-> {<<"HrtB", 0>>},
       queries |-> {}, dies |-> FALSE],
      [timeout |-> None,
       cmds |-> {<<"StTm", 0>>, <<"LogC", 0>>, <<"DelV", 0>>},
       queries |-> {}, dies |-> FALSE],
      [timeout |-> None,
       cmds |-> {<<"GtCt", UnknownQueryId>>},
       queries |-> {"GtCt"}, dies |-> FALSE],
      [timeout |-> None,
       cmds |-> {},
       queries |-> {"GtFt"}, dies |-> FALSE],
      [timeout |-> None,
       cmds |-> {},
       queries |-> {"GtEx", "SvIm"}, dies |-> FALSE] }

\* The state after the client object is created for the host program p.
InitRenderProcess(p) ==
    /\ command_queue_tx = <<>>
    /\ command_queue_rx = <<>>
    /\ server_pc = "unstarted"
    /\ running = FALSE
    /\ target_framerate = 60
    /\ program = p
    /\ watchdog_time = program.timeout
    /\ sinceHeartbeat = 0
    /\ sinceFrame = 0
    /\ drain_left = 0
    /\ timeout = 0
    /\ client_pc = "new"
    /\ is_alive_flag = "unset"
    /\ rx_thread = "run"
    /\ query_futures = <<>>
    /\ query_future_id_counter = 0
    /\ query_futures_lock = "free"
    /\ future = <<>>
    /\ caller = [c \in Callers |-> [pc |-> "idle", tag |-> "", query_id |-> None,
                                    fut |-> 0, ret |-> ""]]
    /\ hist = [sent |-> <<>>, executed |-> <<>>, uniforms |-> {}, frames |-> 0,
               frames_since_rndr |-> 0, frame_rndr |-> 0, frame_uniforms |-> {},
               last_rndr |-> 0, stops |-> 0, after_stop |-> FALSE, ares |-> <<>>,
               read_failed |-> FALSE, issued |-> <<>>, stop_seen |-> FALSE,
               delivered |-> {}, late |-> {}, error_logged |-> FALSE,
               since_sent |-> 0, on_time |-> program.timeout # None]

\* No shader preprocessor call is in progress.
NoCall == [method |-> "none"]
NoReturn == [raised |-> "", value |-> <<>>]
PreIdle ==
    /\ call = NoCall
    /\ pre_pc = "idle"
    /\ ret = NoReturn
    /\ macros = [_shader_parser |-> {}, _template_parser |-> {}, _dynamic_uniforms |-> <<>>]
    /\ done = <<>>

Init ==
    /\ \E p \in Programs : InitRenderProcess(p)
    /\ PreIdle

Server ==
    \/ ServerInit
    \/ ServerLoop
    \/ ServerSleep
    \/ ServerParse
    \/ ServerParseEmpty
    \/ ServerParseReadFailure
    \/ ProcessExit

Client ==
    \/ ClientStartProcess
    \/ ClientSetAlive
    \/ ClientSend
    \/ ClientDies
    \/ RxThreadProcess
    \/ \E c \in Callers : CallerLock(c)
    \/ \E c \in Callers : CallerRegister(c)
    \/ \E c \in Callers : CallerPut(c)
    \/ \E c \in Callers : CallerWait(c)

Next == Server \/ Client \/ Tick

Spec == Init /\ [][Next]_vars

\* The worker's scheduling: the process, once started, keeps taking the steps
\* of its loop, and a command that was put is not reported Empty for ever (the
\* queue's feeder thread writes it to the pipe); the constructor runs to its
\* end, the receiver thread keeps taking messages, and time passes between the
\* loop's iterations again and again.
Fairness ==
    /\ WF_vars(Server)
    /\ SF_vars(ServerParse)
    /\ WF_vars(ClientStartProcess)
    /\ WF_vars(ClientSetAlive)
    /\ WF_vars(RxThreadProcess)
    /\ SF_vars(Tick)

SpecLive == Spec /\ Fairness

----------------------------------------------------------------------------
(* The shader preprocessor: strings and tokens. *)

\* A string is the sequence of its characters; ''.join(list) is Join.
RECURSIVE Join(_)
Join(list) == IF list = <<>> THEN <<>> ELSE Head(list) \o Join(Tail(list))

\* A pcpp LexToken, as far as correct_tokens reads it.
Token(type, value) == [type |-> type, value |-> value]

\* preprocessor.t_STRING and preprocessor.t_WS; identifiers and punctuators
\* have the types CPP_ID and CPP_MINUS.
t_STRING == "CPP_STRING"
t_WS == {"CPP_WS"}

\* An escape that is dropped together with its backslash.
EscapeDropped(c, escaped) == <<>>

\* The else branch of the escape handling: "unescaped.append(c);
\* unescaped.append(escaped)".
InvalidEscape(c, escaped) == <<c, escaped>>

\* The loop "for c in str_iter" from the characters that are left: a
\* backslash takes the next character with it.
RECURSIVE Unescaped(_)
Unescaped(str_iter) ==
    IF str_iter = <<>> THEN <<>>
    ELSE LET c == Head(str_iter)
         IN  IF c = "\\"
             THEN IF Len(str_iter) = 1
                  THEN <<c>>
                  ELSE LET escaped == str_iter[2]
                           rest == SubSeq(str_iter, 3, Len(str_iter))
                       IN  (CASE escaped = "\"" -> <<"\"">>
                              [] escaped = "n" -> <<"\n">>
                              [] escaped = "t" -> <<"\t">>
                              [] OTHER -> InvalidEscape(c, escaped))
                           \o Unescaped(rest)
             ELSE <<c>> \o Unescaped(Tail(str_iter))

\* tok.value[1:-1]
StringContent(value) == SubSeq(value, 2, Len(value) - 1)

\* The loop "for tok in tokens_iter" of correct_tokens from the tokens that
\* are left, with its locals ret and combined_tok, and the flush after it.
RECURSIVE CorrectTokensLoop(_, _, _)
CorrectTokensLoop(tokens, result, combined_tok) ==
    IF tokens = <<>>
    THEN IF Len(combined_tok) > 0 THEN Append(result, Join(combined_tok)) ELSE result
    ELSE LET tok == Head(tokens)
         IN  IF tok.type = t_STRING
             THEN CorrectTokensLoop(Tail(tokens), result,
                                    Append(combined_tok, Unescaped(StringContent(tok.value))))
             ELSE IF tok.type \in t_WS
             THEN IF Len(combined_tok) > 0
                  THEN CorrectTokensLoop(Tail(tokens), Append(result, Join(combined_tok)), <<>>)
                  ELSE CorrectTokensLoop(Tail(tokens), result, combined_tok)
             ELSE CorrectTokensLoop(Tail(tokens), result, Append(combined_tok, tok.value))

\* SSVShaderArgsTokenizer.correct_tokens(tokens, preprocessor)
correct_tokens(tokens) == CorrectTokensLoop(tokens, <<>>, <<>>)

----------------------------------------------------------------------------
(* pcpp.Preprocessor, the base class of the pragma parsers: the directives. *)

\* A source is a sequence of lines: a directive d ("define", "ifdef",
\* "ifndef", "endif", "pragma") with the macro name or the tokens after it, or
\* a line of text that is one word. A string is a sequence of pieces, each a
\* character or a whole word of the source.
Line(d, name, toks) == [d |-> d, name |-> name, toks |-> toks]

Id(word) == Token("CPP_ID", <<word>>)
Ws == Token("CPP_WS", <<" ">>)

\* The tokens of "word word ...", as pcpp hands them to on_directive_unknown.
RECURSIVE Words(_)
Words(words) ==
    IF words = <<>> THEN <<>>
    ELSE IF Len(words) = 1 THEN <<Id(words[1])>>
    ELSE <<Id(words[1]), Ws>> \o Words(Tail(words))

Pragma(words) == Line("pragma", <<>>, Words(words))

\* The tokens of a list of arguments whose pieces are given: "--y" is the
\* token "--" followed by the identifier y, "_y" is one identifier.
RECURSIVE ArgTokens(_)
ArgTokens(strs) ==
    IF strs = <<>> THEN <<>>
    ELSE LET str == Head(strs)
             toks == IF str[1] \in {"-", "--"}
                     THEN <<Token(IF str[1] = "-" THEN "CPP_MINUS" ELSE "CPP_MINUSMINUS", <<str[1]>>),
                            Token("CPP_ID", Tail(str))>>
                     ELSE <<Token("CPP_ID", str)>>
         IN  IF Len(strs) = 1 THEN toks ELSE toks \o <<Ws>> \o ArgTokens(Tail(strs))

\* "#pragma word word ... arg arg ..."
PragmaArgs(words, strs) == Line("pragma", <<>>, Words(words) \o <<Ws>> \o ArgTokens(strs))
Define(name) == Line("define", name, <<>>)
Ifdef(name) == Line("ifdef", name, <<>>)
Ifndef(name) == Line("ifndef", name, <<>>)
Endif == Line("endif", <<>>, <<>>)
TextLine(word) == Line("text", word, <<>>)
\* #include of a file that is neither on the disk nor in pySSV.shaders.
Include(name) == Line("include", name, <<>>)
\* A line that holds the text of a directive in a comment: "// #pragma ...".
Comment(line) == Line("comment", <<>>, line.toks)

\* The macros a new pcpp.Preprocessor defines.
PredefinedMacros == {<<"__PCPP__">>, <<"__DATE__">>, <<"__TIME__">>}

\* The locals of Preprocessor.parsegen over a source, self.macros, the calls
\* of on_directive_unknown made so far, each with the macros then, and the
\* lines of text passed on.
ParsegenStart(self_macros) ==
    [macros |-> self_macros, enable |-> TRUE, iftrigger |-> FALSE, ifstack |-> <<>>,
     unknown |-> <<>>, out |-> <<>>, not_found |-> 0]

\* The text of a list of tokens.
RECURSIVE LineText(_)
LineText(toks) == IF toks = <<>> THEN <<>> ELSE Head(toks).value \o LineText(Tail(toks))

\* SSVShaderSourcePreprocessor.on_directive_unknown: what becomes of the line
\* of the directive.
SourceDirectiveUnknown(directive, toks) ==
    IF directive = "pragma" THEN "IgnoreAndRemove"
    ELSE IF directive = "version" THEN "IgnoreAndPassThrough"
    ELSE "None"

\* The lines written for a directive that was handled so.
Written(action, directive, toks) ==
    IF action = "IgnoreAndRemove" THEN <<>> ELSE << <<"#", directive, " ">> \o LineText(toks) >>

\* One line of parsegen: #define in an enabled region defines, #ifdef and
\* #ifndef push the region and decide the new one, #endif pops, and any other
\* directive reaches on_directive_unknown in an enabled region only. The lines
\* written are those of the SSVShaderSourcePreprocessor (what the pragma
\* parsers write is never read). An #include that is not found is passed on
\* and counted.
ParsegenLine(g, line) ==
    LET pushed == [g EXCEPT !.ifstack = Append(@, [enable |-> g.enable, iftrigger |-> g.iftrigger])]
        taken == IF line.d = "ifdef" THEN line.name \in g.macros ELSE line.name \notin g.macros
    IN  CASE line.d = "define" ->
                IF g.enable THEN [g EXCEPT !.macros = @ \cup {line.name}] ELSE g
          [] line.d \in {"ifdef", "ifndef"} ->
                IF g.enable THEN [pushed EXCEPT !.enable = taken, !.iftrigger = taken] ELSE pushed
          [] line.d = "endif" ->
                IF g.ifstack = <<>> THEN g
                ELSE [g EXCEPT !.enable = g.ifstack[Len(g.ifstack)].enable,
                               !.iftrigger = g.ifstack[Len(g.ifstack)].iftrigger,
                               !.ifstack = SubSeq(@, 1, Len(@) - 1)]
          [] line.d = "pragma" ->
                IF g.enable
                THEN [g EXCEPT !.unknown = Append(@, [toks |-> line.toks, macros |-> g.macros]),
                               !.out = @ \o Written(SourceDirectiveUnknown(line.d, line.toks),
                                                    line.d, line.toks)]
                ELSE g
          [] line.d = "include" ->
                IF g.enable
                THEN [g EXCEPT !.not_found = @ + 1, !.out = Append(@, <<"#include ">> \o line.name)]
                ELSE g
          [] line.d = "text" ->
                IF g.enable THEN [g EXCEPT !.out = Append(@, line.name)] ELSE g
          [] OTHER -> g

RECURSIVE Parsegen(_, _)
Parsegen(g, input) ==
    IF input = <<>> THEN g ELSE Parsegen(ParsegenLine(g, Head(input)), Tail(input))

----------------------------------------------------------------------------
(* SSVShaderPragmaParser. *)

\* SSVBlendOperand.__members__
SSVBlendOperand == {"ZERO", "ONE", "SRC_ALPHA", "ONE_MINUS_SRC_ALPHA"}

\* An attribute that is None, or holds x.
Nothing == <<>>
Some(x) == <<x>>

MultipleError == "ValueError: Shader contains multiple shader template pragma directives! Only one is allowed."
OperandError == "ValueError: Invalid blending operand"
OperandCountError == "ValueError: Expected 4 blending operands"
NoTemplateError == "ValueError: Shader does not use a shader template!"

\* A parser that takes every SSV pragma it meets.
LastPragmaWins(self) == FALSE

\* "if self._pragma_args is not None"
AlreadyHasPragma(self) == self.pragma_args # Nothing

\* "for tok in toks[1:]: if tok.type not in self.t_WS"
BlendOperands(toks) == SelectSeq(Tail(toks), LAMBDA tok : tok.type \notin t_WS)

\* SSVShaderPragmaParser.on_directive_unknown for a #pragma, on the parser's
\* attributes; an exception ends the parse with the macros defined so far.
ShaderDirectiveUnknown(self, u) ==
    LET toks == u.toks
        raise(error) == [self EXCEPT !.raised = error, !.macros = u.macros]
    IN  IF Len(toks) <= 2 THEN self
        ELSE IF toks[1].value = <<"SSV">>
        THEN IF AlreadyHasPragma(self)
             THEN raise(MultipleError)
             ELSE [self EXCEPT !.pragma_args = Some(correct_tokens(SubSeq(toks, 3, Len(toks))))]
        ELSE IF toks[1].value = <<"BLEND">>
        THEN LET blend_mode == BlendOperands(toks)
             IN  IF \E i \in DOMAIN blend_mode :
                        \A member \in SSVBlendOperand : blend_mode[i].value # <<member>>
                 THEN raise(OperandError)
                 ELSE IF Len(blend_mode) # 4
                 THEN raise(OperandCountError)
                 ELSE [self EXCEPT !.blend_mode = Some([i \in 1..4 |-> blend_mode[i].value])]
        ELSE self

\* "while self.token(): pass" as far as the pragmas go.
RECURSIVE ShaderDirectives(_, _)
ShaderDirectives(self, unknown) ==
    IF unknown = <<>> \/ self.raised # "" THEN self
    ELSE ShaderDirectives(ShaderDirectiveUnknown(self, Head(unknown)), Tail(unknown))

\* self._pragma_parse.parse_args(self._pragma_args): the first argument is the
\* template and the others are args. (No argument of the sources here starts
\* with the prefix character "`" or is "--".)
SSVShaderPragmaData(pragma_args, blend_mode) ==
    [template |-> Head(pragma_args), args |-> Tail(pragma_args), blend_mode |-> blend_mode]

\* SSVShaderPragmaParser.parse(input) on a parser whose macro table is
\* self_macros: what it returns or raises, and the macro table it leaves.
SSVShaderPragmaParser_parse(input, self_macros) ==
    LET g == Parsegen(ParsegenStart(self_macros), input)
        self == ShaderDirectives([pragma_args |-> Nothing, blend_mode |-> Nothing,
                                  raised |-> "", macros |-> g.macros], g.unknown)
    IN  IF self.raised # ""
        THEN [raised |-> self.raised, value |-> <<>>, macros |-> self.macros]
        ELSE IF self.pragma_args = Nothing
        THEN [raised |-> NoTemplateError, value |-> <<>>, macros |-> self.macros]
        ELSE [raised |-> "",
              value |-> SSVShaderPragmaData(self.pragma_args[1], self.blend_mode),
              macros |-> self.macros]

----------------------------------------------------------------------------
(* SSVTemplatePragmaParser. *)

\* SSVTemplatePragmaData(): the attributes read later, with their class
\* defaults.
NewTemplatePragmaData ==
    [command |-> "", name |-> <<>>, shader_stage |-> Nothing, non_positional |-> FALSE,
     action |-> Nothing, default |-> Nothing, choices |-> Nothing, const |-> Nothing,
     primitive_type |-> Nothing]

\* The option strings of the "arg" sub-command.
ArgOptionStrings ==
    {<<"--", "non_positional">>, <<"-", "n">>, <<"--", "action">>, <<"-", "a">>,
     <<"--", "default">>, <<"--", "choices">>, <<"-", "c">>, <<"--", "const">>,
     <<"--", "description">>, <<"-", "d">>}

\* The words up to the next option string: the values of an nargs="+" option.
RECURSIVE Values(_)
Values(words) ==
    IF words = <<>> \/ Head(words) \in ArgOptionStrings THEN <<>>
    ELSE <<Head(words)>> \o Values(Tail(words))

\* The "arg" sub-command over the words that are left: the options take their
\* values, --choices extends its list, and the other word is the name.
RECURSIVE ArgPragma(_, _)
ArgPragma(data, words) ==
    IF words = <<>> THEN data
    ELSE LET word == Head(words)
             after(n) == SubSeq(words, n + 1, Len(words))
         IN  IF word \in {<<"--", "non_positional">>, <<"-", "n">>}
             THEN ArgPragma([data EXCEPT !.non_positional = TRUE], after(1))
             ELSE IF word \in {<<"--", "action">>, <<"-", "a">>}
             THEN ArgPragma([data EXCEPT !.action = Some(words[2])], after(2))
             ELSE IF word = <<"--", "default">>
             THEN ArgPragma([data EXCEPT !.default = Some(words[2])], after(2))
             ELSE IF word = <<"--", "const">>
             THEN ArgPragma([data EXCEPT !.const = Some(words[2])], after(2))
             ELSE IF word \in {<<"--", "description">>, <<"-", "d">>}
             THEN ArgPragma(data, after(2))
             ELSE IF word \in {<<"--", "choices">>, <<"-", "c">>}
             THEN LET values == Values(after(1))
                      choices == IF data.choices = Nothing THEN <<>> ELSE data.choices[1]
                  IN  ArgPragma([data EXCEPT !.choices = Some(choices \o values)],
                                after(1 + Len(values)))
             ELSE ArgPragma([data EXCEPT !.name = word], after(1))

\* self._pragma_parse.parse_args(args, namespace=SSVTemplatePragmaData()) for
\* the well-formed pragmas of the sources here: the sub-command and its
\* arguments.
TemplatePragmaData(args) ==
    LET command == args[1][1]
        data == [NewTemplatePragmaData EXCEPT !.command = command]
    IN  CASE command = "define" -> [data EXCEPT !.name = args[2]]
          [] command = "stage" -> [data EXCEPT !.shader_stage = Some(Tail(args))]
          [] command = "arg" -> ArgPragma([data EXCEPT !.action = Some(<<"store">>)], Tail(args))
          [] command = "input_primitive" -> [data EXCEPT !.primitive_type = Some(args[2])]
          [] OTHER -> data

\* The keys the dictionary of a parsed template can have.
Commands == {"define", "stage", "arg", "input_primitive", "blend_mode"}

\* SSVTemplatePragmaParser.on_directive_unknown for a #pragma, on
\* self._pragma_args.
TemplateDirectiveUnknown(pragma_args, toks) ==
    IF Len(toks) <= 2 THEN pragma_args
    ELSE IF toks[1].value = <<"SSVTemplate">>
    THEN Append(pragma_args, correct_tokens(SubSeq(toks, 3, Len(toks))))
    ELSE pragma_args

\* "while self.token(): pass" as far as the pragmas go.
RECURSIVE TemplateDirectives(_, _)
TemplateDirectives(pragma_args, unknown) ==
    IF unknown = <<>> THEN pragma_args
    ELSE TemplateDirectives(TemplateDirectiveUnknown(pragma_args, Head(unknown).toks), Tail(unknown))

\* A dictionary whose keys hold the last entry of their command only.
Overwritten(args, command) ==
    LET entries == SelectSeq(args, LAMBDA arg : arg.command = command)
    IN  IF entries = <<>> THEN <<>> ELSE <<entries[Len(entries)]>>

\* "for arg in args": the entries grouped by command, in source order; a key
\* with no entry is absent from the dictionary.
Grouped(args, command) == SelectSeq(args, LAMBDA arg : arg.command = command)

\* SSVTemplatePragmaParser.parse(input) on a parser whose macro table is
\* self_macros: the dictionary it returns and the macro table it leaves.
SSVTemplatePragmaParser_parse(input, self_macros) ==
    LET g == Parsegen(ParsegenStart(self_macros), input)
        pragma_args == TemplateDirectives(<<>>, g.unknown)
        args == [i \in DOMAIN pragma_args |-> TemplatePragmaData(pragma_args[i])]
    IN  [raised |-> "",
         value |-> [command \in Commands |-> Grouped(args, command)],
         macros |-> g.macros]

----------------------------------------------------------------------------
(* SSVShaderPreprocessor: finding the template. *)

\* str.lower() and str.upper(), piece by piece.
LowerPiece(piece) ==
    CASE piece = "T" -> "t"
      [] piece = "TEMPLATE_" -> "template_"
      [] piece = ".GLSL" -> ".glsl"
      [] piece = "False" -> "false"
      [] piece = "True" -> "true"
      [] OTHER -> piece
lower(str) == [i \in DOMAIN str |-> LowerPiece(str[i])]
UpperPiece(piece) ==
    CASE piece = "t" -> "T"
      [] piece = "k" -> "K"
      [] piece = "m" -> "M"
      [] piece = "n" -> "N"
      [] piece = "p" -> "P"
      [] piece = "q" -> "Q"
      [] piece = "w" -> "W"
      [] piece = "x" -> "X"
      [] piece = "y" -> "Y"
      [] piece = "z" -> "Z"
      [] piece = "vertex" -> "VERTEX"
      [] piece = "fragment" -> "FRAGMENT"
      [] OTHER -> piece
upper(str) == [i \in DOMAIN str |-> UpperPiece(str[i])]

\* f"template_{template_name.lower()}.glsl"
ExpectedFilename(template_name) == <<"template_">> \o lower(template_name) \o <<".glsl">>

\* The result of a step of preprocess(): the exception raised, or "", its
\* value, and the macro table of self._template_parser after it.
Raised(error, self_macros) == [raised |-> error, value |-> <<>>, macros |-> self_macros]
Returned(value, self_macros) == [raised |-> "", value |-> value, macros |-> self_macros]

\* template_metadata["define"] of a dictionary without that key.
NoDefineKey(template_metadata) == template_metadata["define"] = <<>>

\* "for template in additional_templates" from the templates that are left:
\* each is parsed with self._template_parser, and the first whose define
\* pragma names the template is taken, with the pragma's name as its path.
RECURSIVE FindInline(_, _, _)
FindInline(additional_templates, template_name, self_macros) ==
    IF additional_templates = <<>> THEN Returned(Nothing, self_macros)
    ELSE LET template == Head(additional_templates)
             parsed == SSVTemplatePragmaParser_parse(template, self_macros)
             define == parsed.value["define"]
             named == {i \in DOMAIN define : lower(define[i].name) = lower(template_name)}
         IN  IF NoDefineKey(parsed.value) THEN Raised("KeyError: 'define'", parsed.macros)
             ELSE IF named # {}
             THEN Returned(Some([template_path |-> define[CHOOSE i \in named : \A j \in named : i <= j].name,
                                 template_source |-> template]),
                           parsed.macros)
             ELSE FindInline(Tail(additional_templates), template_name, parsed.macros)

\* "for file_name in os.listdir(additional_template_directory)": the first
\* file with the expected name is opened by its bare name, which succeeds when
\* the directory is the working directory.
FindInDirectory(directory, template_name, self_macros) ==
    LET listdir == directory.files
        named == {i \in DOMAIN listdir : lower(listdir[i].name) = ExpectedFilename(template_name)}
        file == listdir[CHOOSE i \in named : \A j \in named : i <= j]
    IN  IF ~directory.isdir
        THEN Raised("NotADirectoryError: Additional template directory is not a valid directory", self_macros)
        ELSE IF named = {} THEN Returned(Nothing, self_macros)
        ELSE IF ~directory.cwd
        THEN Raised("FileNotFoundError: Couldn't read shader template", self_macros)
        ELSE Returned(Some([template_path |-> file.name, template_source |-> file.text]), self_macros)

\* files("pySSV.shaders").joinpath(template_expected_filename).read_text();
\* the error carries the expected file name.
FindBuiltIn(shaders, template_name, self_macros) ==
    LET named == {i \in DOMAIN shaders : shaders[i].name = ExpectedFilename(template_name)}
    IN  IF named = {}
        THEN [Raised("FileNotFoundError: Couldn't find/read a shader template, it should be in a file called",
                     self_macros) EXCEPT !.value = ExpectedFilename(template_name)]
        ELSE Returned(Some([template_path |-> ExpectedFilename(template_name),
                            template_source |-> shaders[CHOOSE i \in named : TRUE].text]),
                      self_macros)

\* SSVShaderPreprocessor._find_shader_template
find_shader_template(template_name, additional_template_directory, additional_templates, shaders, self_macros) ==
    LET inline == IF additional_templates = Nothing THEN Returned(Nothing, self_macros)
                  ELSE FindInline(additional_templates[1], template_name, self_macros)
        in_directory == IF additional_template_directory = Nothing
                        THEN Returned(Nothing, inline.macros)
                        ELSE FindInDirectory(additional_template_directory[1], template_name,
                                             inline.macros)
    IN  IF inline.raised # "" \/ inline.value # Nothing THEN inline
        ELSE IF in_directory.raised # "" \/ in_directory.value # Nothing THEN in_directory
        ELSE FindBuiltIn(shaders, template_name, inline.macros)

----------------------------------------------------------------------------
(* SSVShaderPreprocessor: the arguments of the template. *)

\* A value of the argparse namespace: a string, a boolean or None.
Str(s) == [t |-> "str", s |-> s, b |-> FALSE]
Bool(b) == [t |-> "bool", s |-> <<>>, b |-> b]
NoneValue == [t |-> "None", s |-> <<>>, b |-> FALSE]

\* A positional argument never falls back to its default.
Required(argument) == ~argument.non_positional

\* An argument that is positional unless the entry says --non_positional.
UnderscoreKept(arg, short_args) ==
    [non_positional |-> arg.non_positional,
     dest |-> arg.name,
     option_strings |-> IF ~arg.non_positional THEN {}
                        ELSE {<<"--">> \o arg.name, <<"-", arg.name[1]>>} \ short_args,
     action |-> arg.action[1],
     const |-> arg.const,
     choices |-> IF arg.choices # Nothing /\ Len(arg.choices[1]) > 0 THEN arg.choices ELSE Nothing,
     default |-> arg.default]

\* The argument parser.add_argument(*arg_name, **params) adds for an arg
\* entry, given the short names taken.
Argument(arg, short_args) ==
    LET prefixed == arg.name[1] = "_"
        non_positional == arg.non_positional \/ prefixed
        stripped == IF prefixed THEN Tail(arg.name) ELSE arg.name
        name == <<"--">> \o stripped
        short_name == <<"-", stripped[1]>>
    IN  [non_positional |-> non_positional,
         dest |-> IF non_positional THEN stripped ELSE arg.name,
         option_strings |-> IF ~non_positional THEN {}
                            ELSE IF short_name \in short_args THEN {name}
                            ELSE {name, short_name},
         action |-> arg.action[1],
         const |-> arg.const,
         choices |-> IF arg.choices # Nothing /\ Len(arg.choices[1]) > 0 THEN arg.choices ELSE Nothing,
         default |-> arg.default]

\* SSVShaderPreprocessor._make_argparse: "for arg in template_metadata.get("arg", [])"
\* from the entries that are left; an option string that is taken already is a
\* conflict.
RECURSIVE MakeArgparse(_, _)
MakeArgparse(parser, args) ==
    IF args = <<>> \/ parser.raised # "" THEN parser
    ELSE LET arg == Head(args)
             argument == Argument(arg, parser.short_args)
             taken == UNION {parser.arguments[i].option_strings : i \in DOMAIN parser.arguments}
         IN  IF Len(arg.name) = 0 THEN MakeArgparse(parser, Tail(args))
             ELSE IF argument.option_strings \cap taken # {}
             THEN [parser EXCEPT !.raised = "ArgumentError: conflicting option string"]
             ELSE MakeArgparse([parser EXCEPT !.arguments = Append(@, argument),
                                              !.short_args = @ \cup (argument.option_strings \ {<<"--">> \o argument.dest})],
                               Tail(args))
make_argparse(template_metadata) ==
    MakeArgparse([arguments |-> <<>>, short_args |-> {}, raised |-> ""], template_metadata["arg"])

\* The namespace as the list of its (dest, value) pairs, in the order of
\* __dict__.
Has(namespace, dest) == \E i \in DOMAIN namespace : namespace[i].dest = dest
Set(namespace, dest, val) ==
    IF Has(namespace, dest)
    THEN [i \in DOMAIN namespace |-> IF namespace[i].dest = dest
                                     THEN [dest |-> dest, val |-> val] ELSE namespace[i]]
    ELSE Append(namespace, [dest |-> dest, val |-> val])

\* The default argparse gives an argument.
DefaultOf(argument) ==
    IF argument.default # Nothing THEN Str(argument.default[1])
    ELSE CASE argument.action = <<"store_true">> -> Bool(FALSE)
           [] argument.action = <<"store_false">> -> Bool(TRUE)
           [] OTHER -> NoneValue

\* The value an argument stores without an argument string.
FlagOf(argument) ==
    CASE argument.action = <<"store_true">> -> Bool(TRUE)
      [] argument.action = <<"store_false">> -> Bool(FALSE)
      [] OTHER -> IF argument.const = Nothing THEN NoneValue ELSE Str(argument.const[1])

RECURSIVE Defaults(_, _)
Defaults(namespace, arguments) ==
    IF arguments = <<>> THEN namespace
    ELSE Defaults(IF Has(namespace, Head(arguments).dest) THEN namespace
                  ELSE Set(namespace, Head(arguments).dest, DefaultOf(Head(arguments))),
                  Tail(arguments))

IsOptionString(word) == word # <<>> /\ word[1] \in {"-", "--"}
InChoices(argument, word) ==
    argument.choices = Nothing \/ \E i \in DOMAIN argument.choices[1] : argument.choices[1][i] = word

\* The argument strings from the ones that are left: an option string selects
\* its argument, which takes the next string when its action is store; the
\* other strings are collected for the positional arguments.
RECURSIVE ConsumeOptionals(_, _, _)
ConsumeOptionals(p, arguments, arg_strings) ==
    IF arg_strings = <<>> \/ p.raised # "" THEN p
    ELSE LET word == Head(arg_strings)
             selected == {i \in DOMAIN arguments : word \in arguments[i].option_strings}
             argument == arguments[CHOOSE i \in selected : TRUE]
         IN  IF ~IsOptionString(word)
             THEN ConsumeOptionals([p EXCEPT !.positionals = Append(@, word)], arguments,
                                   Tail(arg_strings))
             ELSE IF selected = {}
             THEN [p EXCEPT !.raised = "SystemExit: unrecognized arguments"]
             ELSE IF argument.action # <<"store">>
             THEN ConsumeOptionals([p EXCEPT !.namespace = Set(@, argument.dest, FlagOf(argument))],
                                   arguments, Tail(arg_strings))
             ELSE IF Len(arg_strings) < 2 \/ IsOptionString(arg_strings[2])
             THEN [p EXCEPT !.raised = "SystemExit: expected one argument"]
             ELSE IF ~InChoices(argument, arg_strings[2])
             THEN [p EXCEPT !.raised = "SystemExit: invalid choice"]
             ELSE ConsumeOptionals([p EXCEPT !.namespace = Set(@, argument.dest, Str(arg_strings[2]))],
                                   arguments, SubSeq(arg_strings, 3, Len(arg_strings)))

\* The positional arguments from the ones that are left: a store takes the
\* next collected string and is required, the other actions take none.
RECURSIVE ConsumePositionals(_, _)
ConsumePositionals(p, arguments) ==
    IF p.raised # "" THEN p
    ELSE IF arguments = <<>>
    THEN IF p.positionals = <<>> THEN p
         ELSE [p EXCEPT !.raised = "SystemExit: unrecognized arguments"]
    ELSE LET argument == Head(arguments)
         IN  IF argument.non_positional THEN ConsumePositionals(p, Tail(arguments))
             ELSE IF argument.action # <<"store">>
             THEN ConsumePositionals([p EXCEPT !.namespace = Set(@, argument.dest, FlagOf(argument))],
                                     Tail(arguments))
             ELSE IF p.positionals = <<>>
             THEN IF Required(argument)
                  THEN [p EXCEPT !.raised = "SystemExit: the following arguments are required"]
                  ELSE ConsumePositionals(p, Tail(arguments))
             ELSE IF ~InChoices(argument, Head(p.positionals))
             THEN [p EXCEPT !.raised = "SystemExit: invalid choice"]
             ELSE ConsumePositionals([p EXCEPT !.namespace = Set(@, argument.dest, Str(Head(p.positionals))),
                                               !.positionals = Tail(@)],
                                     Tail(arguments))

\* template_argparse.parse_args(template_info.args)
parse_args(arguments, arg_strings) ==
    ConsumePositionals(
        ConsumeOptionals([namespace |-> Defaults(<<>>, arguments), positionals |-> <<>>, raised |-> ""],
                         arguments, arg_strings),
        arguments)

----------------------------------------------------------------------------
(* SSVShaderPreprocessor: the defines. *)

\* The constructor arguments of the SSVShaderPreprocessor.
gl_version == <<"420">>
supports_line_directives == TRUE

\* arg_templates: the arg entry of a key, the last one with that key.
ArgTemplateKey(arg) ==
    IF Len(arg.name) > 1 /\ arg.name[1] = "_" THEN Tail(arg.name) ELSE arg.name
ArgTemplates(template_argparse, key) ==
    SelectSeq(template_argparse, LAMBDA arg : ArgTemplateKey(arg) = key)

\* str(n) for the indices of the choices.
IndexStr(n) == <<CASE n = 0 -> "0" [] n = 1 -> "1" [] n = 2 -> "2" [] OTHER -> "3">>

\* "for c in arg_choices": the choices not seen yet get the next index and a
\* define.
RECURSIVE AddChoices(_, _)
AddChoices(d, arg_choices) ==
    IF arg_choices = <<>> THEN d
    ELSE LET c == Head(arg_choices)
         IN  IF \E i \in DOMAIN d.global_choices : d.global_choices[i] = c
             THEN AddChoices(d, Tail(arg_choices))
             ELSE AddChoices([d EXCEPT !.global_choices = Append(@, c),
                                       !.defines = Append(@, <<c, IndexStr(Len(d.global_choices))>>)],
                             Tail(arg_choices))

\* The body of "for arg, val in template_args.__dict__.items()" for one item.
DefineArg(d, item, template_argparse) ==
    LET arg == item.dest
        skipped == \/ item.val.t = "bool" /\ ~item.val.b
                   \/ item.val.t = "str" /\ lower(item.val.s) = <<"false">>
        val == CASE item.val.t = "bool" -> <<"1">>
                 [] item.val.t = "None" -> <<"0">>
                 [] OTHER -> IF lower(item.val.s) = <<"true">> THEN <<"1">> ELSE item.val.s
        templates == ArgTemplates(template_argparse, arg)
        arg_template == templates[Len(templates)]
        with_choices == IF arg_template.choices = Nothing THEN d
                        ELSE AddChoices(d, arg_template.choices[1])
        index == {i \in DOMAIN with_choices.global_choices : with_choices.global_choices[i] = val}
        value == IF arg_template.choices = Nothing THEN val
                 ELSE IndexStr((CHOOSE i \in index : TRUE) - 1)
        name == <<"T_">> \o upper(IF arg[1] = "_" THEN Tail(arg) ELSE arg)
    IN  IF skipped THEN d
        ELSE IF templates = <<>> THEN [d EXCEPT !.raised = "KeyError"]
        ELSE IF arg_template.choices # Nothing /\ index = {}
        THEN [with_choices EXCEPT !.raised = "KeyError"]
        ELSE [with_choices EXCEPT
                 !.defines = @ \o <<<<name, value>>>>
                               \o IF arg_template.default = Some(value)
                                  THEN <<<<name \o <<"_ISDEFAULT">>, <<"1">>>>>>
                                  ELSE <<>>]

\* "for arg, val in template_args.__dict__.items()": each item is handled
\* with what the items before it left.
RECURSIVE DefineArgs(_, _, _)
DefineArgs(d, namespace, template_argparse) ==
    IF namespace = <<>> \/ d.raised # "" THEN d
    ELSE DefineArgs(DefineArg(d, Head(namespace), template_argparse), Tail(namespace),
                    template_argparse)

\* self._dynamic_uniforms is a dictionary: its items in the order in which
\* their keys were first set.
\* A dictionary that keeps the former declaration of a name next to the new.
DeclaredTwice(dynamic_uniforms, name, glsl_type) ==
    Append(dynamic_uniforms, [name |-> name, value |-> <<"uniform ", glsl_type, " ", name, ";">>])

\* SSVShaderPreprocessor.add_dynamic_uniform(name, glsl_type)
add_dynamic_uniform(dynamic_uniforms, name, glsl_type) ==
    LET value == <<"uniform ", glsl_type, " ", name, ";">>
    IN  IF \E i \in DOMAIN dynamic_uniforms : dynamic_uniforms[i].name = name
        THEN [i \in DOMAIN dynamic_uniforms |->
                 IF dynamic_uniforms[i].name = name THEN [name |-> name, value |-> value]
                 ELSE dynamic_uniforms[i]]
        ELSE Append(dynamic_uniforms, [name |-> name, value |-> value])

\* SSVShaderPreprocessor.remove_dynamic_uniform(name): del raises KeyError for
\* a key that is not there.
remove_dynamic_uniform(dynamic_uniforms, name) ==
    IF \E i \in DOMAIN dynamic_uniforms : dynamic_uniforms[i].name = name
    THEN [raised |-> "",
          value |-> SelectSeq(dynamic_uniforms, LAMBDA item : item.name # name)]
    ELSE [raised |-> "KeyError", value |-> dynamic_uniforms]

\* "\n".join(self._dynamic_uniforms.values())
RECURSIVE JoinedValues(_)
JoinedValues(dynamic_uniforms) ==
    IF dynamic_uniforms = <<>> THEN <<>>
    ELSE IF Len(dynamic_uniforms) = 1 THEN dynamic_uniforms[1].value
    ELSE dynamic_uniforms[1].value \o <<"\n">> \o JoinedValues(Tail(dynamic_uniforms))

\* SSVShaderPreprocessor._make_defines with no extra defines, compiler
\* extensions or global defines.
make_defines(template_args, template_argparse, dynamic_uniforms) ==
    LET d == DefineArgs([defines |-> <<>>, global_choices |-> <<>>, raised |-> ""],
                        template_args, template_argparse)
    IN  [d EXCEPT !.defines =
            @ \o << <<<<"SSV_SHADER">>, <<"1">>>>,
                    <<<<"_GL_VERSION">>, <<"#version ">> \o gl_version>> >>
              \o (IF supports_line_directives
                  THEN << <<<<"_GL_SUPPORTS_LINE_DIRECTIVES">>, <<"1">>>> >> ELSE <<>>)
              \o << <<<<"_DYNAMIC_UNIFORMS">>, JoinedValues(dynamic_uniforms)>> >>]

----------------------------------------------------------------------------
(* SSVShaderPreprocessor.preprocess. *)

\* The stage macro of the defines of another stage stays defined.
AllStageMacros(defines, stages, stage) ==
    defines \o [i \in DOMAIN stages |-> <<<<"SHADER_STAGE_">> \o upper(stages[i]), <<"1">>>>]

\* defines + [(f"SHADER_STAGE_{stage.upper()}", "1")]
DefinesStage(defines, stages, stage) ==
    defines \o << <<<<"SHADER_STAGE_">> \o upper(stage), <<"1">>>> >>

\* The value of the last define of a name, or the name.
Expanded(word, defines) ==
    LET named == {i \in DOMAIN defines : defines[i][1] = word}
    IN  IF named = {} THEN word ELSE defines[CHOOSE i \in named : \A j \in named : j <= i][2]

\* A new SSVShaderSourcePreprocessor with the defines, over the template: the
\* lines of text it writes.
Compiled(template_source, defines_stage) ==
    LET g == Parsegen(ParsegenStart(PredefinedMacros
                                    \cup {defines_stage[i][1] : i \in DOMAIN defines_stage}),
                      template_source)
    IN  [i \in DOMAIN g.out |-> Expanded(g.out[i], defines_stage)]

\* preprocessor.return_code after the parse of a stage: on_file_open reports
\* each #include it could not open to on_error, which counts it.
ReturnCode(template_source, defines_stage) ==
    Parsegen(ParsegenStart(PredefinedMacros
                           \cup {defines_stage[i][1] : i \in DOMAIN defines_stage}),
             template_source).not_found

\* The stages of the first stage entry only.
FirstEntryStages(stage) ==
    IF stage = <<>> \/ Head(stage).shader_stage = Nothing THEN <<>> ELSE Head(stage).shader_stage[1]

\* "for template_data in template_metadata.get("stage", [])"
RECURSIVE Stages(_)
Stages(stage) ==
    IF stage = <<>> THEN <<>>
    ELSE (IF Head(stage).shader_stage # Nothing THEN Head(stage).shader_stage[1] ELSE <<>>)
         \o Stages(Tail(stage))

\* compiled_shaders after "for stage in stages" and the primitive type: a
\* dictionary, the later of two equal keys winning.
CompiledShaders(template_source, template_metadata, defines) ==
    LET stages == Stages(template_metadata["stage"])
        input_primitive == template_metadata["input_primitive"]
        keys == {stages[i] \o <<"_shader">> : i \in DOMAIN stages}
                \cup (IF input_primitive # <<>> /\ input_primitive[Len(input_primitive)].primitive_type # Nothing
                      THEN {<<"primitive_type">>} ELSE {})
    IN  [key \in keys |->
            IF key = <<"primitive_type">>
            THEN input_primitive[Len(input_primitive)].primitive_type[1]
            ELSE LET last == CHOOSE i \in DOMAIN stages :
                                 /\ stages[i] \o <<"_shader">> = key
                                 /\ \A j \in DOMAIN stages : stages[j] = stages[i] => j <= i
                 IN  Compiled(template_source, DefinesStage(defines, stages, stages[last]))]

\* The locals of preprocess() where it stopped: at the line that raised, or
\* at the return.
Locals(line, template_info, found, template_metadata, parsed_args, defines) ==
    [line |-> line, template_info |-> template_info, found |-> found,
     template_metadata |-> template_metadata, parsed_args |-> parsed_args, defines |-> defines]

\* SSVShaderPreprocessor.preprocess(source, None, additional_template_directory,
\* additional_templates) with the built-in templates of the package in
\* shaders, on a preprocessor whose parsers have the macro tables self_macros.
preprocess(source, additional_template_directory, additional_templates, shaders, self_macros) ==
    LET none == <<>>
        \* lines 265 to 293
        Defined265(template_info, template, template_metadata, parsed_args, defines, after) ==
            IF defines.raised # ""
            THEN [raised |-> defines.raised, value |-> <<>>, macros |-> after,
                  locals |-> Locals(265, template_info, template, template_metadata,
                                    parsed_args, none)]
            ELSE [raised |-> "",
                  value |-> CompiledShaders(template.template_source, template_metadata,
                                            defines.defines),
                  macros |-> after,
                  locals |-> Locals(293, template_info, template, template_metadata,
                                    parsed_args, defines.defines)]
        \* lines 264 and 265
        Parsed264(template_info, template, template_metadata, parsed_args, after) ==
            IF parsed_args.raised # ""
            THEN [raised |-> parsed_args.raised, value |-> <<>>, macros |-> after,
                  locals |-> Locals(264, template_info, template, template_metadata, none, none)]
            ELSE Defined265(template_info, template, template_metadata, parsed_args.namespace,
                            make_defines(parsed_args.namespace, template_metadata["arg"],
                                         after._dynamic_uniforms),
                            after)
        \* lines 262 and 264
        Made262(template_info, template, template_metadata, template_argparse, after) ==
            IF template_argparse.raised # ""
            THEN [raised |-> template_argparse.raised, value |-> <<>>, macros |-> after,
                  locals |-> Locals(262, template_info, template, template_metadata, none, none)]
            ELSE Parsed264(template_info, template, template_metadata,
                           parse_args(template_argparse.arguments, template_info.args), after)
        \* lines 259 and 262
        Parsed259(template_info, template, template_metadata, after_shader) ==
            Made262(template_info, template, template_metadata.value,
                    make_argparse(template_metadata.value),
                    [after_shader EXCEPT !._template_parser = template_metadata.macros])
        \* lines 255 and 259
        Found255(template_info, found, after_shader) ==
            IF found.raised # ""
            THEN [raised |-> found.raised, value |-> found.value,
                  macros |-> [after_shader EXCEPT !._template_parser = found.macros],
                  locals |-> Locals(255, template_info, none, none, none, none)]
            ELSE Parsed259(template_info, found.value[1],
                           SSVTemplatePragmaParser_parse(found.value[1].template_source, found.macros),
                           after_shader)
        \* lines 252 and 255
        Parsed252(template_info, after_shader) ==
            IF template_info.raised # ""
            THEN [raised |-> template_info.raised, value |-> <<>>, macros |-> after_shader,
                  locals |-> Locals(252, none, none, none, none, none)]
            ELSE Found255(template_info.value,
                          find_shader_template(template_info.value.template,
                                               additional_template_directory, additional_templates,
                                               shaders, self_macros._template_parser),
                          after_shader)
        Started(template_info) ==
            Parsed252(template_info, [self_macros EXCEPT !._shader_parser = template_info.macros])
    IN  Started(SSVShaderPragmaParser_parse(source, self_macros._shader_parser))

----------------------------------------------------------------------------
(* The shader preprocessor: the calls. *)

\* The sequences over the set S of length at most n.
SeqsUpTo(S, n) == UNION {[1..k -> S] : k \in 0..n}

\* The pieces string literals are made of: a plain character and the escape
\* sequences \" \n \t \x.
LiteralPieces ==
    {<<"a">>, <<"\\", "\"">>, <<"\\", "n">>, <<"\\", "t">>, <<"\\", "x">>}

\* The string literal tokens with at most MaxPieces pieces between the quotes.
StringLiterals ==
    {Token(t_STRING, <<"\"">> \o Join(pieces) \o <<"\"">>) : pieces \in SeqsUpTo(LiteralPieces, MaxPieces)}

\* The token lists handed to correct_tokens: at most MaxTokens tokens, each an
\* identifier, a minus sign or whitespace, and at most one a string literal.
TokenLists ==
    UNION {{[i \in DOMAIN shape |->
                CASE shape[i] = "CPP_ID" -> Token("CPP_ID", <<"a">>)
                  [] shape[i] = "CPP_MINUS" -> Token("CPP_MINUS", <<"-">>)
                  [] shape[i] = "CPP_WS" -> Token("CPP_WS", <<" ">>)
                  [] OTHER -> literal]
            : shape \in {sh \in SeqsUpTo({"CPP_ID", "CPP_MINUS", "CPP_WS", "CPP_STRING"}, MaxTokens)
                             : Cardinality({i \in DOMAIN sh : sh[i] = "CPP_STRING"}) <= 1}}
           : literal \in StringLiterals}

\* The lines of the shader sources.
ShaderLines ==
    {Pragma(<<"SSV">>), Pragma(<<"SSV", "t">>), Pragma(<<"SSV", "u", "a", "b">>),
     Pragma(<<"BLEND", "ONE", "ZERO", "SRC_ALPHA", "ONE">>), Pragma(<<"BLEND", "ONE", "ZERO">>),
     Pragma(<<"BLEND", "ONE", "ZERO", "ONE", "x">>),
     Ifdef(<<"G">>), Endif, TextLine(<<"a">>)}

\* Every #endif of the source closes an #ifdef or #ifndef, and none is left
\* open at the end.
RECURSIVE Balanced(_, _)
Balanced(input, open) ==
    IF input = <<>> THEN open = 0
    ELSE IF Head(input).d \in {"ifdef", "ifndef"} THEN Balanced(Tail(input), open + 1)
    ELSE IF Head(input).d = "endif" THEN open > 0 /\ Balanced(Tail(input), open - 1)
    ELSE Balanced(Tail(input), open)

\* The shader sources: at most MaxLines lines.
ShaderSources == {input \in SeqsUpTo(ShaderLines, MaxLines) : Balanced(input, 0)}

\* A shader that guards its pragma against a second inclusion.
GuardedShader == <<Ifndef(<<"G">>), Define(<<"G">>), Pragma(<<"SSV", "t">>), Endif>>

\* The SSVTemplate pragmas of the template sources.
TemplatePragmas ==
    {Pragma(<<"SSVTemplate", "stage", "vertex">>),
     Pragma(<<"SSVTemplate", "stage", "fragment">>),
     Pragma(<<"SSVTemplate", "input_primitive", "POINTS">>),
     PragmaArgs(<<"SSVTemplate", "arg">>, << <<"x">>, <<"--", "default">>, <<"d">> >>),
     PragmaArgs(<<"SSVTemplate", "arg">>, << <<"_", "y">>, <<"--", "default">>, <<"d">> >>),
     PragmaArgs(<<"SSVTemplate", "arg">>, << <<"_", "z">>, <<"--", "action">>, <<"store_true">> >>),
     PragmaArgs(<<"SSVTemplate", "arg">>, << <<"_", "w">>, <<"--", "default">>, <<"false">> >>)}

SHADER_STAGE_VERTEX == <<"SHADER_STAGE_", "VERTEX">>

\* The lines of a template that writes the value of y and, after the vertex
\* stage has defined G, a line where G is defined.
StageBody ==
    <<TextLine(<<"T_", "Y">>), Ifdef(SHADER_STAGE_VERTEX), Define(<<"G">>), Endif,
      Ifdef(<<"G">>), TextLine(<<"a">>), Endif>>

\* A template that guards its pragmas against a second inclusion, and one with
\* pragmas that are not its own.
GuardedTemplate ==
    <<Pragma(<<"SSVTemplate", "define", "t">>), Ifndef(<<"G">>), Define(<<"G">>),
      Pragma(<<"SSVTemplate", "stage", "vertex">>), Endif>>
OtherPragmas == <<Pragma(<<"SSV", "t">>), Pragma(<<"SSVTemplate">>)>>
\* A template with two stage lines around an arg line and a pragma in a
\* comment, as the templates of the tests have them.
CommentedTemplate ==
    <<Pragma(<<"SSVTemplate", "stage", "vertex">>),
      Comment(PragmaArgs(<<"SSVTemplate", "arg">>, << <<"_", "y">>, <<"--", "default">>, <<"d">> >>)),
      PragmaArgs(<<"SSVTemplate", "arg">>, << <<"x">>, <<"--", "default">>, <<"d">> >>),
      Pragma(<<"SSVTemplate", "stage", "fragment">>)>>

\* The template sources that are parsed: at most MaxPragmas pragmas, or one of
\* the templates above.
TemplateSources ==
    SeqsUpTo(TemplatePragmas, MaxPragmas) \cup {StageBody, GuardedTemplate, OtherPragmas, CommentedTemplate}

\* The template sources that are preprocessed: at most MaxPragmas pragmas and
\* possibly the lines above.
BuiltInTemplates ==
    {head \o body : head \in SeqsUpTo(TemplatePragmas, MaxPragmas), body \in {<<>>, StageBody}}

\* The arguments a shader gives its template.
ShaderArgs == {<<>>, << <<"v">> >>, << <<"--", "y">>, <<"v">> >>}

\* Templates that declare positional arguments and flags, each once, and the
\* arguments shaders give them.
ArgumentPragmas ==
    {PragmaArgs(<<"SSVTemplate", "arg">>, << <<"x">>, <<"--", "default">>, <<"d">> >>),
     PragmaArgs(<<"SSVTemplate", "arg">>, << <<"p">> >>),
     PragmaArgs(<<"SSVTemplate", "arg">>, << <<"q">>, <<"-", "n">> >>),
     PragmaArgs(<<"SSVTemplate", "arg">>, << <<"_", "y">>, <<"--", "default">>, <<"d">> >>)}
Once(pragmas) == \A i, j \in DOMAIN pragmas : pragmas[i] = pragmas[j] => i = j
ArgumentTemplates == {pragmas \in SeqsUpTo(ArgumentPragmas, MaxPragmas) : Once(pragmas)}
ArgumentLists ==
    {<< <<"v">>, <<"u">> >>,
     << <<"v">>, <<"--", "q">>, <<"w">>, <<"u">> >>,
     << <<"-", "y">>, <<"w">>, <<"v">> >>}

\* Templates whose arguments declare choices or a default of true, each once,
\* and the arguments shaders give them.
ChoicePragmas ==
    {PragmaArgs(<<"SSVTemplate", "arg">>,
                << <<"_", "m">>, <<"--", "choices">>, <<"a">>, <<"b">>, <<"--", "default">>, <<"a">> >>),
     PragmaArgs(<<"SSVTemplate", "arg">>,
                << <<"_", "n">>, <<"--", "choices">>, <<"b">>, <<"c">>, <<"--", "default">>, <<"b">> >>),
     PragmaArgs(<<"SSVTemplate", "arg">>,
                << <<"_", "k">>, <<"--", "choices">>, <<"false">>, <<"a">>, <<"--", "default">>, <<"a">> >>),
     PragmaArgs(<<"SSVTemplate", "arg">>, << <<"_", "t">>, <<"--", "default">>, <<"true">> >>)}
ChoiceTemplates == {pragmas \in SeqsUpTo(ChoicePragmas, MaxPragmas) : Once(pragmas)}
ChoiceLists ==
    {<<>>, << <<"--", "m">>, <<"b">> >>, << <<"--", "n">>, <<"c">> >>,
     << <<"--", "k">>, <<"false">> >>}

\* Templates of one stage with directives of the macro engine: an #include
\* that cannot be resolved, a pragma of GLSL and PreventLine.
DirectiveLines ==
    {Include(<<"missing", ".glsl">>), Pragma(<<"optimize", "off">>),
     Pragma(<<"PreventLine", "true">>), TextLine(<<"a">>)}
DirectiveTemplates ==
    {<<Pragma(<<"SSVTemplate", "stage", "vertex">>)>> \o body : body \in SeqsUpTo(DirectiveLines, 2)}

\* The shader "#pragma SSV <name> <args>".
ShaderUsing(name, strs) ==
    <<IF strs = <<>> THEN Pragma(<<"SSV", name>>) ELSE PragmaArgs(<<"SSV", name>>, strs)>>

\* A file of a directory or of the package.
File(name, text) == [name |-> name, text |-> text]

\* The templates of the calls that look a template up: each says where it was.
DefinedAs(name, place) ==
    <<Pragma(<<"SSVTemplate", "define", name>>), Pragma(<<"SSVTemplate", "stage", "vertex">>),
      TextLine(<<place>>)>>
Undefined(place) == <<Pragma(<<"SSVTemplate", "stage", "vertex">>), TextLine(<<place>>)>>

InlineTemplates ==
    {Nothing, Some(<<DefinedAs("u", "other")>>), Some(<<Undefined("other")>>),
     Some(<<DefinedAs("t", "inline")>>), Some(<<DefinedAs("T", "inline")>>),
     Some(<<DefinedAs("u", "other"), DefinedAs("t", "inline")>>),
     Some(<<DefinedAs("t", "inline"), DefinedAs("t", "other")>>)}

TemplateDirectories ==
    {Nothing, Some([isdir |-> FALSE, cwd |-> FALSE, files |-> <<>>])}
    \cup {Some([isdir |-> TRUE, cwd |-> cwd, files |-> files]) :
             cwd \in BOOLEAN,
             files \in {<<>>,
                        <<File(<<"template_", "u", ".glsl">>, Undefined("other")),
                          File(<<"template_", "t", ".glsl">>, Undefined("directory"))>>,
                        <<File(<<"TEMPLATE_", "T", ".GLSL">>, Undefined("directory"))>>}}

PackageShaders == {<<>>, <<File(<<"template_", "t", ".glsl">>, Undefined("built-in"))>>}

PreprocessCall(source, additional_template_directory, additional_templates, shaders) ==
    [method |-> "preprocess", source |-> source,
     additional_template_directory |-> additional_template_directory,
     additional_templates |-> additional_templates, shaders |-> shaders]

\* The calls of preprocess(): a shader with its arguments and a built-in
\* template, of each of the three kinds, and a shader whose template is looked
\* up.
PreprocessCalls ==
    {PreprocessCall(ShaderUsing("t", strs), Nothing, Nothing,
                    <<File(<<"template_", "t", ".glsl">>, template)>>)
        : strs \in ShaderArgs, template \in BuiltInTemplates}
    \cup {PreprocessCall(ShaderUsing("t", strs), Nothing, Nothing,
                         <<File(<<"template_", "t", ".glsl">>, template)>>)
             : strs \in ArgumentLists, template \in ArgumentTemplates}
    \cup {PreprocessCall(ShaderUsing("t", strs), Nothing, Nothing,
                         <<File(<<"template_", "t", ".glsl">>, template)>>)
             : strs \in ChoiceLists, template \in ChoiceTemplates}
    \cup {PreprocessCall(ShaderUsing("t", <<>>), Nothing, Nothing,
                         <<File(<<"template_", "t", ".glsl">>, template)>>)
             : template \in DirectiveTemplates}
    \cup {PreprocessCall(ShaderUsing(name, <<>>), directory, templates, shaders)
             : name \in {"t", "T"}, directory \in TemplateDirectories,
               templates \in InlineTemplates, shaders \in PackageShaders}

\* The calls that register and unregister dynamic uniforms, and the call of
\* preprocess() that follows them: the template writes _DYNAMIC_UNIFORMS in
\* its vertex stage.
UniformCalls ==
    {[method |-> "add_dynamic_uniform", name |-> name, glsl_type |-> glsl_type]
        : name \in {"a", "b"}, glsl_type \in {"float", "int"}}
    \cup {[method |-> "remove_dynamic_uniform", name |-> name] : name \in {"a", "b"}}
UniformsPreprocess ==
    PreprocessCall(ShaderUsing("t", <<>>), Nothing, Nothing,
                   <<File(<<"template_", "t", ".glsl">>,
                          <<Pragma(<<"SSVTemplate", "stage", "vertex">>),
                            TextLine(<<"_DYNAMIC_UNIFORMS">>)>>)>>)

\* The calls of the shader preprocessor's functions that are checked.
Calls ==
    {[method |-> "correct_tokens", tokens |-> tokens] : tokens \in TokenLists}
    \cup {[method |-> "SSVShaderPragmaParser.parse", input |-> input]
             : input \in ShaderSources \cup {GuardedShader}}
    \cup {[method |-> "SSVTemplatePragmaParser.parse", input |-> input] : input \in TemplateSources}
    \cup PreprocessCalls
    \cup UniformCalls

\* The call that ends is written to the history.
Finished(r) == Append(done, [call |-> call, ret |-> r, macros |-> macros])

\* SSVShaderArgsTokenizer.correct_tokens(tokens, preprocessor) is called and
\* returns.
CorrectTokensCall ==
    /\ pre_pc = "called"
    /\ call.method = "correct_tokens"
    /\ ret' = [raised |-> "", value |-> correct_tokens(call.tokens)]
    /\ pre_pc' = "returned"
    /\ done' = Finished(ret')
    /\ UNCHANGED <<call, macros>>
    /\ UNCHANGED render_process_vars

\* self._shader_parser.parse(input) is called and returns or raises.
ShaderParseCall ==
    /\ pre_pc = "called"
    /\ call.method = "SSVShaderPragmaParser.parse"
    /\ \E r \in {SSVShaderPragmaParser_parse(call.input, macros._shader_parser)} :
           /\ ret' = [raised |-> r.raised, value |-> r.value]
           /\ macros' = [macros EXCEPT !._shader_parser = r.macros]
           /\ pre_pc' = IF r.raised = "" THEN "returned" ELSE "raised"
    /\ done' = Finished(ret')
    /\ UNCHANGED call
    /\ UNCHANGED render_process_vars

\* self._template_parser.parse(input) is called and returns.
TemplateParseCall ==
    /\ pre_pc = "called"
    /\ call.method = "SSVTemplatePragmaParser.parse"
    /\ \E r \in {SSVTemplatePragmaParser_parse(call.input, macros._template_parser)} :
           /\ ret' = [raised |-> r.raised, value |-> r.value]
           /\ macros' = [macros EXCEPT !._template_parser = r.macros]
    /\ pre_pc' = "returned"
    /\ done' = Finished(ret')
    /\ UNCHANGED call
    /\ UNCHANGED render_process_vars

\* SSVShaderPreprocessor.preprocess is called and returns or raises.
Preprocess ==
    /\ pre_pc = "called"
    /\ call.method = "preprocess"
    /\ \E r \in {preprocess(call.source, call.additional_template_directory,
                               call.additional_templates, call.shaders, macros)} :
           /\ ret' = [raised |-> r.raised, value |-> r.value, locals |-> r.locals]
           /\ macros' = r.macros
           /\ pre_pc' = IF r.raised = "" THEN "returned" ELSE "raised"
    /\ done' = Finished(ret')
    /\ UNCHANGED call
    /\ UNCHANGED render_process_vars

\* The same source is parsed again with the same parser.
ParseAgain ==
    /\ pre_pc \in {"returned", "raised"}
    /\ call.method \in {"SSVShaderPragmaParser.parse", "SSVTemplatePragmaParser.parse"}
    /\ Len(done) < MaxCalls
    /\ pre_pc' = "called"
    /\ ret' = NoReturn
    /\ UNCHANGED <<call, macros, done>>
    /\ UNCHANGED render_process_vars

\* add_dynamic_uniform(name, glsl_type) is called and returns.
AddDynamicUniform ==
    /\ pre_pc = "called"
    /\ call.method = "add_dynamic_uniform"
    /\ macros' = [macros EXCEPT !._dynamic_uniforms = add_dynamic_uniform(@, call.name, call.glsl_type)]
    /\ ret' = NoReturn
    /\ pre_pc' = "returned"
    /\ done' = Finished(ret')
    /\ UNCHANGED call
    /\ UNCHANGED render_process_vars

\* remove_dynamic_uniform(name) is called and returns or raises.
RemoveDynamicUniform ==
    /\ pre_pc = "called"
    /\ call.method = "remove_dynamic_uniform"
    /\ \E r \in {remove_dynamic_uniform(macros._dynamic_uniforms, call.name)} :
           /\ macros' = [macros EXCEPT !._dynamic_uniforms = r.value]
           /\ ret' = [raised |-> r.raised, value |-> <<>>]
           /\ pre_pc' = IF r.raised = "" THEN "returned" ELSE "raised"
    /\ done' = Finished(ret')
    /\ UNCHANGED call
    /\ UNCHANGED render_process_vars

\* The caller goes on, having caught what was raised: with a further dynamic
\* uniform, or with preprocess().
CallNext ==
    /\ pre_pc \in {"returned", "raised"}
    /\ call.method \in {"add_dynamic_uniform", "remove_dynamic_uniform"}
    /\ call' \in (IF Len(done) < MaxUniformCalls THEN UniformCalls ELSE {}) \cup {UniformsPreprocess}
    /\ pre_pc' = "called"
    /\ ret' = NoReturn
    /\ UNCHANGED <<macros, done>>
    /\ UNCHANGED render_process_vars

\* SSVShaderPreprocessor.__init__: the two parsers it keeps are new and no
\* dynamic uniform is registered.
NewParsers ==
    [_shader_parser |-> PredefinedMacros, _template_parser |-> PredefinedMacros,
     _dynamic_uniforms |-> <<>>]

\* A call of the shader preprocessor, with no render process around.
NoProgram == [timeout |-> None, cmds |-> {}, queries |-> {}, dies |-> FALSE]

InitPre ==
    /\ InitRenderProcess(NoProgram)
    /\ call \in Calls
    /\ pre_pc = "called"
    /\ ret = NoReturn
    /\ macros = NewParsers
    /\ done = <<>>

NextPre ==
    \/ CorrectTokensCall
    \/ ShaderParseCall
    \/ TemplateParseCall
    \/ Preprocess
    \/ ParseAgain
    \/ AddDynamicUniform
    \/ RemoveDynamicUniform
    \/ CallNext

SpecPre == InitPre /\ [][NextPre]_vars

----------------------------------------------------------------------------
(* What the properties speak of. *)

\* The commands the dispatcher has taken from the queue, as they were sent.
ExecutedCommand(i) == hist.sent[hist.executed[i]]
ExecutedTags == {ExecutedCommand(i).tag : i \in 1..Len(hist.executed)}

\* A HrtB or Rndr command has been processed.
HeartbeatProcessed == ExecutedTags \cap {"HrtB", "Rndr"} # {}

\* A SWdg(None) command has been processed.
WatchdogDisabled ==
    \E i \in 1..Len(hist.executed) :
        ExecutedCommand(i).tag = "SWdg" /\ ExecutedCommand(i).arg = None

\* The worker has left its loop.
LoopLeft == server_pc \in {"exited", "crashed", "terminated"}

\* The worker left its loop through the watchdog: a Stop was put although no
\* processed command returned False and no read of the queue failed.
WatchdogShutdown ==
    /\ hist.stops > 0
    /\ ~hist.read_failed
    /\ \A i \in 1..Len(hist.executed) : ParseReturns(ExecutedCommand(i).tag)

\* This step is the receiver thread taking a message with this tag.
RxTakes(tag) ==
    /\ command_queue_rx # <<>>
    /\ Head(command_queue_rx).tag = tag
    /\ command_queue_rx' = Tail(command_queue_rx)

\* How often x occurs in the sequence seq.
Count(seq, x) == Cardinality({i \in 1..Len(seq) : seq[i] = x})

----------------------------------------------------------------------------
(* C1: the watchdog. *)

----------------------------------------------------------------------------
(* C2: commands are executed in the order they were enqueued. *)

\* The ids (positions in the order of the put() calls) of a sequence of commands.
Ids(queue) == [i \in 1..Len(queue) |-> queue[i].id]

\* C2: the commands the worker has executed are the first ones enqueued, each
\* once and in the order of their enqueueing, the ones still queued are the
\* rest in that order, and only the last executed one can be a Stop or an
\* unknown command.
C2_FifoOrder ==
    /\ hist.executed = [i \in 1..Len(hist.executed) |-> i]
    /\ Ids(command_queue_tx) = [i \in 1..Len(command_queue_tx) |-> Len(hist.executed) + i]
    /\ Len(hist.executed) + Len(command_queue_tx) = Len(hist.sent)
    /\ \A i \in 1..(Len(hist.executed) - 1) : ParseReturns(ExecutedCommand(i).tag)

\* The worker is in the middle of a drain, has executed a command of it, and
\* more commands are queued than the drain was started for.
C2_Witness ==
    /\ server_pc = "drain"
    /\ hist.executed # <<>>
    /\ drain_left >= 1
    /\ Len(command_queue_tx) > drain_left

----------------------------------------------------------------------------
(* C3: uniform updates enqueued before a Rndr are applied before its frames. *)

\* C3: when a frame has been rendered after the Rndr command frame_rndr was
\* processed, every UpdU command enqueued before that Rndr had been applied
\* to the renderer when the frame was rendered.
C3_UniformsBeforeFrame ==
    hist.frame_rndr > 0 =>
        \A i \in 1..hist.frame_rndr :
            hist.sent[i].tag = "UpdU" => i \in hist.frame_uniforms

\* A worker that was already rendering frames for a first Rndr got an UpdU
\* and a second Rndr, and has rendered the first frame after that one.
C3_Witness ==
    /\ Len(hist.sent) = 3
    /\ hist.sent[1].tag = "Rndr" /\ hist.sent[1].arg # 0
    /\ hist.sent[2].tag = "UpdU"
    /\ hist.frame_rndr = 3
    /\ hist.frames = 2
    /\ hist.frames_since_rndr = 1

----------------------------------------------------------------------------
(* C4: every query is answered once. *)

\* The Future object created for query_id q.
FutureOf(q) == CHOOSE o \in 1..Len(hist.issued) : hist.issued[o] = q

\* C4: for every query command GtCt, GtFt, GtEx or SvIm the worker has
\* processed, exactly one ARes with its query_id was put on the worker ->
\* client queue, and once the receiver thread has taken it the Future created
\* for that query_id holds the result.
C4_EveryQueryAnswered ==
    \A i \in 1..Len(hist.executed) :
        LET cmd == ExecutedCommand(i)
        IN  (cmd.query /\ cmd.tag \in ClientQueryTags) =>
               /\ Count(hist.ares, cmd.arg) = 1
               /\ cmd.arg \in hist.delivered =>
                     /\ future[FutureOf(cmd.arg)].available
                     /\ future[FutureOf(cmd.arg)].result = AsyncResult(QueryResult(cmd.tag))

----------------------------------------------------------------------------
(* C5: query ids. *)

\* C5: the query ids handed out are strictly increasing; every entry of the
\* pending table holds the one Future that was created for its query_id; and
\* the id that the next query gets, or that a caller inside
\* __create_async_query has just got, is not in the table.
C5_QueryIdsUnique ==
    /\ \A i \in 1..Len(hist.issued) : \A j \in 1..Len(hist.issued) :
          i < j => hist.issued[i] < hist.issued[j]
    /\ \A q \in DOMAIN query_futures : hist.issued[query_futures[q]] = q
    /\ \A c \in Callers : caller[c].pc = "locked" => caller[c].query_id \notin DOMAIN query_futures
    /\ LockFree => query_future_id_counter \notin DOMAIN query_futures

\* One caller thread is creating a query while the query of the other is in
\* the table and the receiver thread has an ARes to take.
C5_Witness ==
    /\ \E c \in Callers : caller[c].pc = "locked"
    /\ DOMAIN query_futures # {}
    /\ command_queue_rx # <<>>
    /\ Head(command_queue_rx).tag = "ARes"

----------------------------------------------------------------------------
(* C6: a query that timed out. *)

\* C6: when a blocking query has returned None because its wait timed out,
\* its query_id is not in the pending table.
C6_TimedOutFutureRemoved ==
    \A c \in Callers :
        (caller[c].pc = "idle" /\ caller[c].ret = "None") =>
            caller[c].query_id \notin DOMAIN query_futures

----------------------------------------------------------------------------
(* C7: results nobody waits for. *)

\* C7: the receiver thread never raises, whatever ARes it takes (one for a
\* query whose caller timed out or one for a query_id that is not in the
\* table included), and the step that takes the ARes of one query_id leaves
\* every other entry of the table and its Future as they were.
C7_LateResultIsNoOp ==
    /\ [](rx_thread = "run")
    /\ [][RxTakes("ARes") =>
            \A q \in DOMAIN query_futures \ {Head(command_queue_rx).arg} :
                /\ q \in DOMAIN query_futures'
                /\ query_futures'[q] = query_futures[q]
                /\ future'[query_futures[q]] = future[query_futures[q]]]_vars

\* The receiver thread has taken an ARes for a query whose caller had timed
\* out and one for an unknown query_id, it still runs, and another query is
\* pending.
C7_Witness ==
    /\ hist.late = {"timed_out", "unknown"}
    /\ rx_thread = "run"
    /\ DOMAIN query_futures # {}

----------------------------------------------------------------------------
(* C8: unknown commands. *)

\* C8: a command with an unknown tag is the last one the worker executes: it
\* has logged an error, left its loop and put a Stop.
C8_UnknownTagIsFatal ==
    \A i \in 1..Len(hist.executed) :
        ExecutedCommand(i).tag \notin ServerTags =>
            /\ i = Len(hist.executed)
            /\ LoopLeft
            /\ hist.stops > 0
            /\ hist.error_logged

\* The worker executed a command, then an unknown one, with a further
\* command queued behind it.
C8_Witness ==
    /\ Len(hist.executed) = 2
    /\ ExecutedCommand(2).tag \notin ServerTags
    /\ command_queue_tx # <<>>
    /\ LoopLeft

----------------------------------------------------------------------------
(* C9: leaving the loop. *)

\* C9: once the worker has left its loop, it has put exactly one Stop and
\* nothing after it, and no command was executed after one that made the
\* worker leave the loop.
C9_ExactlyOneStopLast ==
    /\ LoopLeft => (hist.stops = 1 /\ ~hist.after_stop)
    /\ \A i \in 1..(Len(hist.executed) - 1) : ParseReturns(ExecutedCommand(i).tag)

----------------------------------------------------------------------------
(* C10: Rndr with a negative framerate. *)

\* C10: after the worker has processed a Rndr command with a negative
\* framerate it renders at most one frame until the next Rndr is processed.
C10_SingleFrame ==
    (hist.last_rndr > 0 /\ hist.sent[hist.last_rndr].arg < 0) =>
        hist.frames_since_rndr <= 1

----------------------------------------------------------------------------
(* C11: is_alive after a Stop. *)

\* C11: in every state after the receiver thread has processed a Stop
\* message, the client's is_alive is false.
C11_StopClearsAlive ==
    hist.stop_seen => ~is_alive

----------------------------------------------------------------------------
(* C12: heartbeats sent in time. *)

\* C12: as long as the time from the worker's start to the first heartbeat
\* enqueued and between consecutive heartbeats enqueued has stayed below the
\* watchdog timeout, the worker has not shut down through its watchdog.
C12_TimelyHeartbeatsKeepAlive ==
    hist.on_time => ~WatchdogShutdown

----------------------------------------------------------------------------
(* C13: the command vocabulary. *)

\* C13: no command that a public method of the client enqueues, stop() aside,
\* makes the worker leave its loop when it is executed.
C13_VocabularyAgrees ==
    \A i \in 1..Len(hist.executed) :
        ExecutedCommand(i).tag \in ClientTags \ {"Stop"} =>
            ParseReturns(ExecutedCommand(i).tag)

----------------------------------------------------------------------------
(* C14: the one SSV pragma of a shader. *)

\* The finished calls of SSVShaderPragmaParser.parse.
ShaderParses == {i \in DOMAIN done : done[i].call.method = "SSVShaderPragmaParser.parse"}

\* A line "#pragma SSV <template> ...".
IsSSVPragma(toks) == Len(toks) > 2 /\ toks[1].value = <<"SSV">>
\* A line "#pragma BLEND ..." with operands.
IsBlendPragma(toks) == Len(toks) > 2 /\ toks[1].value = <<"BLEND">>

\* The token lists of the #pragma SSV lines of a source, in source order.
SSVPragmaLines(input) ==
    LET pragmas == SelectSeq(input, LAMBDA line : line.d = "pragma" /\ IsSSVPragma(line.toks))
    IN  [i \in DOMAIN pragmas |-> pragmas[i].toks]

\* The token lists of the pragmas in the regions of a source that are active
\* for a parser with the given macros.
ActivePragmas(input, self_macros) ==
    LET unknown == Parsegen(ParsegenStart(self_macros), input).unknown
    IN  [i \in DOMAIN unknown |-> unknown[i].toks]
ActiveSSVPragmas(input, self_macros) == SelectSeq(ActivePragmas(input, self_macros), IsSSVPragma)

\* A #pragma BLEND line with four operands of SSVBlendOperand.
WellFormedBlend(toks) ==
    LET operands == BlendOperands(toks)
    IN  /\ Len(operands) = 4
        /\ \A i \in 1..4 : \E member \in SSVBlendOperand : operands[i].value = <<member>>
AllBlendsWellFormed(input, self_macros) ==
    \A i \in DOMAIN ActivePragmas(input, self_macros) :
        IsBlendPragma(ActivePragmas(input, self_macros)[i])
            => WellFormedBlend(ActivePragmas(input, self_macros)[i])

\* The parse of a finished call succeeded with the template and the args of
\* the pragma whose tokens are toks.
SelectedBy(finished, toks) ==
    /\ finished.ret.raised = ""
    /\ finished.ret.value.template = Head(correct_tokens(SubSeq(toks, 3, Len(toks))))
    /\ finished.ret.value.args = Tail(correct_tokens(SubSeq(toks, 3, Len(toks))))

----------------------------------------------------------------------------
(* C15: correct_tokens. *)

\* Position i of a string literal's content is the character that the
\* backslash before it escapes.
RECURSIVE Escaped(_, _)
Escaped(content, i) == i > 1 /\ content[i - 1] = "\\" /\ ~Escaped(content, i - 1)

\* What position i of a string literal's content gives to the argument.
Contribution(content, i) ==
    IF Escaped(content, i) THEN <<>>
    ELSE IF content[i] # "\\" THEN <<content[i]>>
    ELSE IF i = Len(content) THEN <<"\\">>
    ELSE CASE content[i + 1] = "\"" -> <<"\"">>
           [] content[i + 1] = "n" -> <<"\n">>
           [] content[i + 1] = "t" -> <<"\t">>
           [] OTHER -> <<"\\", content[i + 1]>>

\* What a token that is not whitespace gives to the argument it is part of.
Text(tok) ==
    IF tok.type = t_STRING
    THEN LET content == StringContent(tok.value)
         IN  Join([i \in 1..Len(content) |-> Contribution(content, i)])
    ELSE tok.value

\* The maximal runs of tokens without whitespace: where they start and end.
RunStarts(tokens) ==
    {i \in DOMAIN tokens :
        tokens[i].type \notin t_WS /\ (i = 1 \/ tokens[i - 1].type \in t_WS)}
RunEnd(tokens, i) ==
    CHOOSE j \in i..Len(tokens) :
        /\ \A m \in i..j : tokens[m].type \notin t_WS
        /\ j = Len(tokens) \/ tokens[j + 1].type \in t_WS

\* One argument per run, in order: the texts of the run's tokens joined.
Arguments(tokens) ==
    [k \in 1..Cardinality(RunStarts(tokens)) |->
        LET i == CHOOSE r \in RunStarts(tokens) :
                     Cardinality({q \in RunStarts(tokens) : q <= r}) = k
        IN  Join([m \in 1..(RunEnd(tokens, i) - i + 1) |-> Text(tokens[i + m - 1])])]

\* C15: correct_tokens returns one argument per maximal run of tokens not
\* separated by whitespace, in order; a string literal gives its content
\* without the quotes, with \" \n \t replaced and every other backslash
\* sequence kept as both characters, and is joined with the tokens next to it.
C15_CorrectTokens ==
    (pre_pc = "returned" /\ call.method = "correct_tokens") =>
        ret.value = Arguments(call.tokens)

\* An identifier, a string literal with an unknown escape and \n, and a
\* minus sign without whitespace between them came back as one argument.
C15_Witness ==
    /\ pre_pc = "returned"
    /\ call.method = "correct_tokens"
    /\ call.tokens = <<Token("CPP_ID", <<"a">>),
                       Token(t_STRING, <<"\"", "\\", "x", "\\", "n", "\"">>),
                       Token("CPP_MINUS", <<"-">>)>>
    /\ ret.value = << <<"a", "\\", "x", "\n", "-">> >>
----------------------------------------------------------------------------
(* C16: the keys of the compiled shaders. *)

\* The finished calls of preprocess(), and those that returned.
Preprocessed == {i \in DOMAIN done : done[i].call.method = "preprocess"}
Compilations == {i \in Preprocessed : done[i].ret.raised = ""}

\* The union of the stages of the stage entries of a parsed template.
StageUnion(template_metadata) ==
    UNION {{template_metadata["stage"][i].shader_stage[1][j]
               : j \in DOMAIN template_metadata["stage"][i].shader_stage[1]}
           : i \in DOMAIN template_metadata["stage"]}

\* C16: the dictionary preprocess() returns has exactly the keys
\* "<stage>_shader" for each stage in the union of the template's stage
\* entries, plus "primitive_type" iff the template declares input_primitive;
\* for a vertex and fragment template without input_primitive these are two
\* keys.
C16_CompiledKeys ==
    \A i \in Compilations :
        LET template_metadata == done[i].ret.locals.template_metadata
            keys == DOMAIN done[i].ret.value
        IN  /\ keys = {stage \o <<"_shader">> : stage \in StageUnion(template_metadata)}
                      \cup (IF template_metadata["input_primitive"] # <<>>
                            THEN {<<"primitive_type">>} ELSE {})
            /\ (StageUnion(template_metadata) = {<<"vertex">>, <<"fragment">>}
                /\ template_metadata["input_primitive"] = <<>>)
                   => Cardinality(keys) = 2

\* A template with a vertex entry, a fragment entry and arguments, and no
\* input_primitive, has been compiled into two shaders.
C16_Witness ==
    \E i \in Compilations :
        /\ Len(done[i].ret.locals.template_metadata["stage"]) = 2
        /\ Len(done[i].ret.locals.template_metadata["arg"]) = 1
        /\ DOMAIN done[i].ret.value = {<<"vertex", "_shader">>, <<"fragment", "_shader">>}

----------------------------------------------------------------------------
(* C17: the stages are compiled apart. *)

\* The stage macro of a stage.
StageMacro(stage) == <<"SHADER_STAGE_">> \o upper(stage)

\* What the template gives for a stage when the macro engine starts with the
\* defines and the macro of that stage and nothing else.
CompiledAlone(template_source, defines, stage) ==
    LET visible == PredefinedMacros \cup {defines[k][1] : k \in DOMAIN defines}
                   \cup {StageMacro(stage)}
        out == Parsegen(ParsegenStart(visible), template_source).out
    IN  [k \in DOMAIN out |-> Expanded(out[k], defines)]

\* C17: while the macro engine compiles stage Y, SHADER_STAGE_X is defined
\* only for X = Y, and no macro defined while one stage was compiled is
\* visible in another: the output of a stage is what the template gives with
\* the defines and the macro of that stage alone, whichever stages were
\* declared before it.
C17_StagesApart ==
    \A i \in Compilations :
        LET locals == done[i].ret.locals
        IN  /\ \A k \in DOMAIN locals.defines : locals.defines[k][1][1] # "SHADER_STAGE_"
            /\ \A stage \in StageUnion(locals.template_metadata) :
                   done[i].ret.value[stage \o <<"_shader">>]
                       = CompiledAlone(locals.found.template_source, locals.defines, stage)

\* A template that defines G in the vertex stage and writes a line where G is
\* defined has been compiled for the vertex stage and then for the fragment
\* stage: the vertex shader has the line, the fragment shader has not.
C17_Witness ==
    \E i \in Compilations :
        /\ Stages(done[i].ret.locals.template_metadata["stage"]) = << <<"vertex">>, <<"fragment">> >>
        /\ \E n \in 1..Len(done[i].ret.locals.found.template_source) :
               done[i].ret.locals.found.template_source[n] = Define(<<"G">>)
        /\ done[i].ret.value[<<"vertex", "_shader">>] = << <<"d">>, <<"a">> >>
        /\ done[i].ret.value[<<"fragment", "_shader">>] = << <<"d">> >>

----------------------------------------------------------------------------
(* C18: where a template is found. *)

\* The finished calls of preprocess() that looked for a template, with a
\* directory, if one was given, that is a directory.
Lookups ==
    {i \in Preprocessed :
        /\ done[i].ret.locals.line >= 255
        /\ \/ done[i].call.additional_template_directory = Nothing
           \/ done[i].call.additional_template_directory[1].isdir}

\* The first element of a list among those at the matching indices, if any.
First(list, matching) ==
    IF matching = {} THEN Nothing
    ELSE Some(list[CHOOSE k \in matching : \A j \in matching : k <= j])

\* The source of the template of a name by the resolution order: the inline
\* templates, then the directory, then the built-in templates.
Resolved(c, template_name) ==
    LET Declares(template) ==
            LET define == SSVTemplatePragmaParser_parse(template, PredefinedMacros).value["define"]
            IN  \E k \in DOMAIN define : lower(define[k].name) = lower(template_name)
        Named(file) == lower(file.name) = ExpectedFilename(template_name)
        Files(files) == First(files, {k \in DOMAIN files : Named(files[k])})
        inline == IF c.additional_templates = Nothing THEN Nothing
                  ELSE First(c.additional_templates[1],
                             {k \in DOMAIN c.additional_templates[1] :
                                 Declares(c.additional_templates[1][k])})
        in_directory == IF c.additional_template_directory = Nothing THEN Nothing
                        ELSE Files(c.additional_template_directory[1].files)
        built_in == Files(c.shaders)
    IN  IF inline # Nothing THEN inline
        ELSE IF in_directory # Nothing THEN Some(in_directory[1].text)
        ELSE IF built_in # Nothing THEN Some(built_in[1].text)
        ELSE Nothing

\* C18: a template is looked for in the inline additional templates (by the
\* name of their define pragma, ignoring case), then in the additional
\* directory (template_<name>.glsl, ignoring case), then among the built-in
\* templates; the first match wins, an earlier candidate that does not match,
\* such as an inline template with no define pragma, never prevents the later
\* locations, and when there is no match the error names template_<name>.glsl.
C18_ResolutionOrder ==
    \A i \in Lookups :
        LET template_name == done[i].ret.locals.template_info.template
            resolved == Resolved(done[i].call, template_name)
        IN  IF resolved # Nothing
            THEN /\ done[i].ret.locals.line > 255
                 /\ done[i].ret.locals.found.template_source = resolved[1]
            ELSE /\ done[i].ret.locals.line = 255
                 /\ done[i].ret.raised = "FileNotFoundError: Couldn't find/read a shader template, it should be in a file called"
                 /\ done[i].ret.value = ExpectedFilename(template_name)

----------------------------------------------------------------------------
(* C19: the defaults of the arguments. *)

\* The finished calls of preprocess() that made the argument parser of the
\* template and bound an empty list of arguments with it.
EmptyBindings ==
    {i \in Preprocessed : done[i].ret.locals.line >= 264
                          /\ done[i].ret.locals.template_info.args = <<>>}

\* The value of the last define of a name in a list of defines, if any.
Defined(defines, name) ==
    LET named == {k \in DOMAIN defines : defines[k][1] = name}
    IN  IF named = {} THEN Nothing
        ELSE Some(defines[CHOOSE k \in named : \A j \in named : j <= k][2])

\* C19: for an arg entry with a default, positional or not, binding an empty
\* argument list succeeds and yields T_<NAME> = default, or no macro when the
\* default is boolean-false.
C19_DefaultsBind ==
    \A i \in EmptyBindings :
        LET locals == done[i].ret.locals
            arg == locals.template_metadata["arg"]
        IN  \A k \in DOMAIN arg :
                arg[k].default # Nothing =>
                    /\ locals.line = 293
                    /\ Defined(locals.defines, <<"T_">> \o upper(ArgTemplateKey(arg[k])))
                           = IF lower(arg[k].default[1]) = <<"false">> THEN Nothing
                             ELSE arg[k].default

----------------------------------------------------------------------------
(* C20: a parser that is used again. *)

\* What a call of one of the two parse methods returns or raises when the
\* parser it is made on is new.
OfNewParser(c) ==
    LET r == IF c.method = "SSVShaderPragmaParser.parse"
             THEN SSVShaderPragmaParser_parse(c.input, PredefinedMacros)
             ELSE SSVTemplatePragmaParser_parse(c.input, PredefinedMacros)
    IN  [raised |-> r.raised, value |-> r.value]

\* C20: parsing the same source twice with the same parser yields equal
\* results: no macro or pragma state carries over between the parse() calls of
\* the parsers SSVShaderPreprocessor reuses, so every parse returns what a new
\* parser returns for its source.
C20_ParseTwice ==
    \A i \in DOMAIN done :
        done[i].call.method \in {"SSVShaderPragmaParser.parse", "SSVTemplatePragmaParser.parse"}
            => /\ done[i].ret = OfNewParser(done[i].call)
               /\ done[i].ret = done[1].ret

----------------------------------------------------------------------------
(* C21: flags and positional slots. *)

\* The finished calls of preprocess() whose arguments were bound.
Bindings == {i \in Preprocessed : done[i].ret.locals.line >= 265}

\* The arg entries that are flags, those that are positional slots, in the
\* order of their declaration, and the name of the flag of an entry.
IsFlag(entry) == entry.non_positional \/ entry.name[1] = "_"
Slots(arg) == SelectSeq(arg, LAMBDA entry : ~IsFlag(entry))
FlagName(entry) == IF entry.name[1] = "_" THEN Tail(entry.name) ELSE entry.name

\* The argument strings of a shader pragma that are given positionally: those
\* that are neither a flag nor the value after one.
RECURSIVE GivenPositionally(_)
GivenPositionally(strs) ==
    IF strs = <<>> THEN <<>>
    ELSE IF Head(strs)[1] \in {"-", "--"} THEN GivenPositionally(SubSeq(strs, 3, Len(strs)))
    ELSE <<Head(strs)>> \o GivenPositionally(Tail(strs))

\* The value a name has in a namespace.
Bound(namespace, dest) ==
    LET named == {k \in DOMAIN namespace : namespace[k].dest = dest}
    IN  IF named = {} THEN Nothing ELSE Some(namespace[CHOOSE k \in named : TRUE].val)

\* C21: in a binding that succeeded, the i-th value given positionally is
\* bound to the i-th arg entry that is neither non_positional nor named with
\* a leading underscore, in declaration order, and the value given after
\* "--<name without the leading underscore>" is bound to the entry that is
\* non_positional or named with a leading underscore.
C21_FlagsAndSlots ==
    \A i \in Bindings :
        LET locals == done[i].ret.locals
            arg == locals.template_metadata["arg"]
            strs == locals.template_info.args
            values == GivenPositionally(strs)
        IN  /\ Len(values) = Len(Slots(arg))
            /\ \A k \in DOMAIN values :
                   Bound(locals.parsed_args, Slots(arg)[k].name) = Some(Str(values[k]))
            /\ \A k \in DOMAIN arg : \A n \in 1..(Len(strs) - 1) :
                   (IsFlag(arg[k]) /\ strs[n] = <<"--">> \o FlagName(arg[k]))
                       => Bound(locals.parsed_args, FlagName(arg[k])) = Some(Str(strs[n + 1]))

\* A template that declares x, the flag q and p was given v, --q w and u: x
\* is v, p is u and q is w.
C21_Witness ==
    \E i \in Bindings :
        LET locals == done[i].ret.locals
        IN  /\ Len(locals.template_metadata["arg"]) = 3
            /\ locals.template_metadata["arg"][1].name = <<"x">>
            /\ locals.template_metadata["arg"][2].name = <<"q">>
            /\ locals.template_metadata["arg"][3].name = <<"p">>
            /\ locals.template_info.args = << <<"v">>, <<"--", "q">>, <<"w">>, <<"u">> >>
            /\ Bound(locals.parsed_args, <<"x">>) = Some(Str(<<"v">>))
            /\ Bound(locals.parsed_args, <<"p">>) = Some(Str(<<"u">>))
            /\ Bound(locals.parsed_args, <<"q">>) = Some(Str(<<"w">>))

----------------------------------------------------------------------------
(* C22: the entries of a parsed template. *)

\* The finished calls of SSVTemplatePragmaParser.parse.
TemplateParses == {i \in DOMAIN done : done[i].call.method = "SSVTemplatePragmaParser.parse"}

\* The line k of a source is a "#pragma SSVTemplate <command> ..." outside of
\* comments, in a region that is active for a parser with the given macros.
IsCommandLine(input, self_macros, k, command) ==
    /\ input[k].d = "pragma"
    /\ Len(input[k].toks) > 2
    /\ input[k].toks[1].value = <<"SSVTemplate">>
    /\ input[k].toks[3].value = <<command>>
    /\ Parsegen(ParsegenStart(self_macros), SubSeq(input, 1, k - 1)).enable

\* The numbers of these lines, in source order.
RECURSIVE CommandLines(_, _, _, _)
CommandLines(input, self_macros, k, command) ==
    IF k > Len(input) THEN <<>>
    ELSE (IF IsCommandLine(input, self_macros, k, command) THEN <<k>> ELSE <<>>)
             \o CommandLines(input, self_macros, k + 1, command)

\* The entry parsed from the arguments of a pragma line.
EntryOf(line) == TemplatePragmaData(correct_tokens(SubSeq(line.toks, 3, Len(line.toks))))

\* C22: SSVTemplatePragmaParser.parse returns, for each sub-command, the
\* entries of all the "#pragma SSVTemplate" lines of that sub-command that the
\* preprocessor reaches, in the order of their lines in the source, several
\* lines of one sub-command accumulating; a sub-command without such a line
\* has no entries, and a pragma inside a comment produces none.
C22_EntriesInSourceOrder ==
    \A i \in TemplateParses :
        /\ done[i].ret.raised = ""
        /\ \A command \in Commands :
               LET lines == CommandLines(done[i].call.input, done[i].macros._template_parser, 1, command)
                   entries == done[i].ret.value[command]
               IN  /\ Len(entries) = Len(lines)
                   /\ \A j \in DOMAIN lines : entries[j] = EntryOf(done[i].call.input[lines[j]])

\* The template with two stage lines, an arg line and an arg pragma in a
\* comment has been parsed into two stage entries in source order and one arg
\* entry, that of the line outside the comment.
C22_Witness ==
    \E i \in TemplateParses :
        /\ done[i].call.input = CommentedTemplate
        /\ Len(done[i].ret.value["stage"]) = 2
        /\ done[i].ret.value["stage"][1].shader_stage = Some(<< <<"vertex">> >>)
        /\ done[i].ret.value["stage"][2].shader_stage = Some(<< <<"fragment">> >>)
        /\ Len(done[i].ret.value["arg"]) = 1
        /\ done[i].ret.value["arg"][1].name = <<"x">>
----------------------------------------------------------------------------
(* C23: the macro T_<NAME>_ISDEFAULT. *)

\* The finished calls of preprocess() whose defines were made.
Definings == {i \in Preprocessed : done[i].ret.locals.line = 293}

\* The arg entries of a template whose name no other entry has.
NamedOnce(arg) ==
    {k \in DOMAIN arg : \A j \in DOMAIN arg : ArgTemplateKey(arg[j]) = ArgTemplateKey(arg[k]) => j = k}

\* C23: for every bound arg entry with a declared default that produces a
\* macro T_<NAME>, the macro T_<NAME>_ISDEFAULT is emitted with the value 1 if
\* and only if the bound value equals the declared default, also when the
\* entry declares choices.
C23_IsDefaultIffDefault ==
    \A i \in Definings :
        LET locals == done[i].ret.locals
            arg == locals.template_metadata["arg"]
        IN  \A k \in NamedOnce(arg) :
                LET macro == <<"T_">> \o upper(ArgTemplateKey(arg[k]))
                IN  (arg[k].default # Nothing /\ Defined(locals.defines, macro) # Nothing)
                        => ((Defined(locals.defines, macro \o <<"_ISDEFAULT">>) = Some(<<"1">>))
                               <=> (Bound(locals.parsed_args, ArgTemplateKey(arg[k]))
                                       = Some(Str(arg[k].default[1]))))
----------------------------------------------------------------------------
(* C24: the errors of the macro engine. *)

\* The stages of a finished call of preprocess() whose defines were made.
StagesOf(i) == Stages(done[i].ret.locals.template_metadata["stage"])

\* The error count of the macro engine after the stage of a finished call.
ReturnCodeOf(i, stage) ==
    ReturnCode(done[i].ret.locals.found.template_source,
               DefinesStage(done[i].ret.locals.defines, StagesOf(i), stage))

\* C24: when the macro engine has counted an error while it compiled a stage,
\* as for an #include that cannot be resolved, preprocess() fails and does not
\* return the text of the stage.
C24_ErrorsSurface ==
    \A i \in Definings :
        \A k \in DOMAIN StagesOf(i) :
            ReturnCodeOf(i, StagesOf(i)[k]) > 0 => done[i].ret.raised # ""

----------------------------------------------------------------------------
(* C25: the pragmas of GLSL. *)

\* The pragmas of a template that the macro engine reaches in a stage and
\* that are neither of SSV or SSVTemplate nor PreventLine.
OrdinaryPragmas(i, stage) ==
    LET defines_stage == DefinesStage(done[i].ret.locals.defines, StagesOf(i), stage)
        unknown == Parsegen(ParsegenStart(PredefinedMacros
                                          \cup {defines_stage[k][1] : k \in DOMAIN defines_stage}),
                            done[i].ret.locals.found.template_source).unknown
    IN  {unknown[k].toks : k \in {j \in DOMAIN unknown :
                                      unknown[j].toks[1].value
                                          \notin {<<"SSV">>, <<"SSVTemplate">>, <<"PreventLine">>}}}

\* C25: a #pragma that the macro engine of a stage meets and that is neither
\* of SSV or SSVTemplate nor PreventLine is a line of the text of the stage,
\* unchanged.
C25_PragmasPassThrough ==
    \A i \in Compilations :
        \A k \in DOMAIN StagesOf(i) : \A toks \in OrdinaryPragmas(i, StagesOf(i)[k]) :
            LET text == done[i].ret.value[StagesOf(i)[k] \o <<"_shader">>]
            IN  \E n \in DOMAIN text : text[n] = <<"#", "pragma", " ">> \o LineText(toks)
----------------------------------------------------------------------------
(* C26: the integers of the choices. *)

\* The choice values the arg entries of a template declare.
DeclaredChoices(arg) ==
    UNION {{arg[k].choices[1][n] : n \in DOMAIN arg[k].choices[1]}
              : k \in {j \in DOMAIN arg : arg[j].choices # Nothing}}

\* The defines the template of a finished call gives when the shader pragma
\* supplies the argument strings strs instead.
DefinesWith(i, strs) ==
    LET template_metadata == done[i].ret.locals.template_metadata
        parsed_args == parse_args(make_argparse(template_metadata).arguments, strs)
    IN  IF parsed_args.raised # "" THEN [raised |-> parsed_args.raised, defines |-> <<>>]
        ELSE LET d == make_defines(parsed_args.namespace, template_metadata["arg"],
                                   done[i].macros._dynamic_uniforms)
             IN  [raised |-> d.raised, defines |-> d.defines]

\* C26: every choice value a template declares has one integer, the integers
\* are 0, 1, 2, ... without gaps, a value that two arg entries declare has the
\* same integer for both, and the integer of a value is the same whichever
\* arguments the shader pragma supplies.
C26_ChoiceIntegers ==
    \A i \in Definings :
        LET locals == done[i].ret.locals
            declared == DeclaredChoices(locals.template_metadata["arg"])
        IN  /\ \A c \in declared : Defined(locals.defines, c) # Nothing
            /\ {Defined(locals.defines, c) : c \in declared}
                   = {Some(IndexStr(n)) : n \in 0..(Cardinality(declared) - 1)}
            /\ \A strs \in ChoiceLists :
                   DefinesWith(i, strs).raised = ""
                       => \A c \in declared :
                              Defined(DefinesWith(i, strs).defines, c) = Defined(locals.defines, c)
----------------------------------------------------------------------------
(* C27: the backlog comes before the sleep. *)

\* The worker goes to sleep in this step.
FallsAsleep == server_pc # "sleep" /\ server_pc' = "sleep"

\* C27: the worker goes to sleep only in a loop iteration that found the
\* command queue empty, and by then every command that was put on the queue,
\* before a drain or during it, has been taken and processed.
C27_BacklogBeforeSleep ==
    [][FallsAsleep => /\ command_queue_tx = <<>>
                      /\ command_queue_tx' = <<>>
                      /\ Len(hist.executed') = Len(hist.sent')]_vars

\* The worker sleeps after it has processed three commands.
C27_Witness == server_pc = "sleep" /\ Len(hist.executed) = 3

----------------------------------------------------------------------------
(* C28: how long the worker sleeps. *)

\* C28: while the worker sleeps, the sleep is at most the rest of the frame
\* period when it is running with a positive framerate, and at most half the
\* watchdog timeout when a watchdog timeout is set, running or not (timeout
\* is in half ticks, watchdog_time in ticks).
C28_SleepBounds ==
    server_pc = "sleep" =>
        /\ (running /\ target_framerate > 0)
               => timeout <= 2 * Max(FramePeriod(target_framerate) - sinceFrame, 0)
        /\ watchdog_time # None => timeout <= watchdog_time

----------------------------------------------------------------------------
(* C29: idle, running, shutting down. *)

\* The loop has been left.
ShuttingDown == server_pc \in {"exited", "crashed", "terminated"}

\* The step processes a command, and the command it processes.
Processes == Len(hist.executed') = Len(hist.executed) + 1
Processed == hist.sent[hist.executed'[Len(hist.executed')]]

----------------------------------------------------------------------------
(* C30: the dynamic uniforms. *)

UniformMethods == {"add_dynamic_uniform", "remove_dynamic_uniform"}

\* The calls before call i that named the uniform and did not raise.
Changes(i, name) ==
    {j \in 1..(i - 1) : /\ done[j].call.method \in UniformMethods
                         /\ done[j].call.name = name
                         /\ done[j].ret.raised = ""}
LastChange(i, name) == CHOOSE j \in Changes(i, name) : \A k \in Changes(i, name) : k <= j

\* The names that are registered when call i is made: those whose last change
\* was an add.
Registered(i) ==
    {name \in {done[j].call.name : j \in {k \in 1..(i - 1) : done[k].call.method \in UniformMethods}} :
        /\ Changes(i, name) # {}
        /\ done[LastChange(i, name)].call.method = "add_dynamic_uniform"}

\* "uniform <type> <name>;" with the type of the most recent add.
Declaration(i, name) ==
    <<"uniform ", done[LastChange(i, name)].call.glsl_type, " ", name, ";">>

\* The lines of a text.
RECURSIVE SplitLines(_, _)
SplitLines(text, line) ==
    IF text = <<>> THEN <<line>>
    ELSE IF Head(text) = "\n" THEN <<line>> \o SplitLines(Tail(text), <<>>)
    ELSE SplitLines(Tail(text), Append(line, Head(text)))
LinesOf(text) == IF text = <<>> THEN <<>> ELSE SplitLines(text, <<>>)

\* C30: after any sequence of calls of add_dynamic_uniform and
\* remove_dynamic_uniform, the defines of the next preprocess() hold the macro
\* _DYNAMIC_UNIFORMS, whose lines are the declarations "uniform <type> <name>;"
\* of exactly the registered names, one for each name, with the type of its
\* most recent add; and remove_dynamic_uniform raises exactly when the name is
\* not registered, which leaves the registered names as they were.
C30_DynamicUniforms ==
    /\ \A i \in Definings :
           LET macro == Defined(done[i].ret.locals.defines, <<"_DYNAMIC_UNIFORMS">>)
           IN  /\ macro # Nothing
               /\ Len(LinesOf(macro[1])) = Cardinality(Registered(i))
               /\ {LinesOf(macro[1])[k] : k \in DOMAIN LinesOf(macro[1])}
                      = {Declaration(i, name) : name \in Registered(i)}
    /\ \A j \in DOMAIN done :
           done[j].call.method = "remove_dynamic_uniform"
               => /\ done[j].ret.raised # "" <=> done[j].call.name \notin Registered(j)
                  /\ done[j].ret.raised # ""
                         => (Len(done) > j
                                => done[j + 1].macros._dynamic_uniforms = done[j].macros._dynamic_uniforms)

\* a was added as float and again as int, the removal of b, which is not
\* registered, raised, and preprocess() defined _DYNAMIC_UNIFORMS as
\* "uniform int a;" and wrote it in the vertex stage.
C30_Witness ==
    /\ Len(done) = 4
    /\ done[1].call = [method |-> "add_dynamic_uniform", name |-> "a", glsl_type |-> "float"]
    /\ done[2].call = [method |-> "add_dynamic_uniform", name |-> "a", glsl_type |-> "int"]
    /\ done[3].call = [method |-> "remove_dynamic_uniform", name |-> "b"]
    /\ done[3].ret.raised = "KeyError"
    /\ done[4].call.method = "preprocess"
    /\ Defined(done[4].ret.locals.defines, <<"_DYNAMIC_UNIFORMS">>)
           = Some(<<"uniform ", "int", " ", "a", ";">>)
    /\ done[4].ret.value[<<"vertex", "_shader">>] = << <<"uniform ", "int", " ", "a", ";">> >>
====
